---- MODULE Spec2Model ----
(***************************************************************************)
(* Hurricane-track filtering and time-keyed join pipeline of the           *)
(* qm2023 capstone repository: the HURDAT2 parsers, the 60 NM proximity    *)
(* filter, the storm summary, the economic-event merge, the annual         *)
(* aggregate and the Metro x Month panel merge.                            *)
(*                                                                         *)
(* Text is modelled as sequences of one-character strings, so that the     *)
(* Python string operations (split, strip, startswith, isdigit, slicing,   *)
(* int(), float(), upper()) are computed rather than assumed.  Decimal     *)
(* numbers are fixed point: coordinates in tenths of a degree, distances   *)
(* in thousandths of a nautical mile, costs in hundredths of a billion.    *)
(***************************************************************************)
EXTENDS Integers, Sequences, FiniteSets, TLC

\* variant          the script that runs: "capstone" (capstone_data_pipeline),
\*                  "filter60" (filter_florida_storms_60nm, then
\*                  merge_hurricane_economic), "download"
\*                  (download_hurricane_data), "clean" (clean_hurdat2),
\*                  "landfall" (filter_florida_landfall_hurricanes)
\* text             the HURDAT2 text, a sequence of line names
\* pc               the position of the script
\* raised           an exception left the script
\* track_records    the parsed track points
\* landfall_names   the (name, year) set of hurdat_florida_landfalls
\* storm_ids        the in-scope storm ids
\* storm_min_dist   storm id -> minimum distance (thousandths of a NM)
\* florida_storms   the storm summary rows
\* econ             the economic events (econ_df / econ_rows)
\* hurricane_econ   the merged hurricane-economic rows
\* annual_hurricane the annual aggregate
\* zillow_panel     the housing panel as Section 5 leaves it
\* merged           the merged panel
\* arg              the argument of a call of one function (a coordinate
\*                  field, a dollar string, an event name, a pair of
\*                  thresholds)
\* out              what that call returned
\* started          the stages of a pipeline run whose process was started
\* failed           the child scripts that failed (results["failed"])
\* top              the outcome of the run: "running", "complete", "error"
\* stage, child     the stage of the run and the next child script in it
\* files            the files of data/raw and data/processed that exist
\* exit_code        the exit code of the script that ended last
\* logged           the messages logged or printed: [level, about]
\* noaa_data        the events of the NOAA response read by Section 4c
\* status_file      logs/pipeline_status.json of the dashboard runner: whether
\*                  it exists, whether it is being rewritten, its content
\* calls            the calls of run_step and run_all in flight: request,
\*                  position, local status dict, loop index, step, results
\*
\* variant also names "merge" (merge_hurricane_economic run on its own),
\* "run_pipeline" and "run_all" (the two runners), "run_step" and
\* "run_all_status" (the calls of the dashboard runner on its status file),
\* and the single function that is called in the specifications of one call.
VARIABLES variant, text, pc, raised, track_records, landfall_names, storm_ids,
          storm_min_dist, florida_storms, econ, hurricane_econ,
          annual_hurricane, zillow_panel, merged, arg, out,
          started, failed, top, stage, child, files, exit_code, logged, noaa_data,
          status_file, calls

vars == <<variant, text, pc, raised, track_records, landfall_names, storm_ids,
          storm_min_dist, florida_storms, econ, hurricane_econ,
          annual_hurricane, zillow_panel, merged, arg, out,
          started, failed, top, stage, child, files, exit_code, logged, noaa_data,
          status_file, calls>>

fnVars == <<arg, out>>

runVars == <<started, failed, top, stage, child>>

ioVars == <<files, exit_code, logged>>

inVars == <<noaa_data>>
stVars == <<status_file, calls>>

(***************************************************************************)
(* Python values: None / NaN and present values.                           *)
(***************************************************************************)
None == [some |-> FALSE, v |-> 0]
Some(x) == [some |-> TRUE, v |-> x]

(***************************************************************************)
(* Characters and strings.                                                 *)
(***************************************************************************)
Digits == {"0", "1", "2", "3", "4", "5", "6", "7", "8", "9"}
UpperLetters == {"A", "B", "C", "D", "E", "F", "G", "H", "I", "J", "K", "L", "M",
                 "N", "O", "P", "Q", "R", "S", "T", "U", "V", "W", "X", "Y", "Z"}
LowerLetters == {"a", "b", "c", "d", "e", "f", "g", "h", "i", "j", "k", "l", "m",
                 "n", "o", "p", "q", "r", "s", "t", "u", "v", "w", "x", "y", "z"}

DigitVal(c) ==
    CASE c = "0" -> 0 [] c = "1" -> 1 [] c = "2" -> 2 [] c = "3" -> 3
      [] c = "4" -> 4 [] c = "5" -> 5 [] c = "6" -> 6 [] c = "7" -> 7
      [] c = "8" -> 8 [] c = "9" -> 9

\* str.isalpha() of one character
IsAlpha(c) == c \in UpperLetters \cup LowerLetters

\* str.isdigit(): non-empty and every character a digit
IsDigit(s) == Len(s) > 0 /\ \A i \in 1..Len(s) : s[i] \in Digits

\* s[:-1]
DropLast(s) == IF Len(s) = 0 THEN s ELSE SubSeq(s, 1, Len(s) - 1)

\* s[a:b] with 0-based Python bounds, clipped to the string
Slice(s, a, b) ==
    LET hi == IF b > Len(s) THEN Len(s) ELSE b
    IN  IF a >= hi THEN <<>> ELSE SubSeq(s, a + 1, hi)

\* s.startswith(p)
StartsWith(s, p) == Len(s) >= Len(p) /\ SubSeq(s, 1, Len(p)) = p

RECURSIVE LStrip(_)
LStrip(s) == IF Len(s) > 0 /\ s[1] = " " THEN LStrip(Tail(s)) ELSE s

RECURSIVE RStrip(_)
RStrip(s) == IF Len(s) > 0 /\ s[Len(s)] = " " THEN RStrip(DropLast(s)) ELSE s

\* str.strip()
Strip(s) == RStrip(LStrip(s))

\* str.split(sep): always at least one part
RECURSIVE SplitFrom(_, _, _, _)
SplitFrom(s, sep, i, cur) ==
    IF i > Len(s) THEN <<cur>>
    ELSE IF s[i] = sep THEN <<cur>> \o SplitFrom(s, sep, i + 1, <<>>)
    ELSE SplitFrom(s, sep, i + 1, Append(cur, s[i]))

Split(s, sep) == SplitFrom(s, sep, 1, <<>>)

\* [p.strip() for p in line.split(",")]
StripParts(line) ==
    LET ps == Split(line, ",") IN [i \in 1..Len(ps) |-> Strip(ps[i])]

\* value of a digit string
RECURSIVE DigitsVal(_)
DigitsVal(s) ==
    IF Len(s) = 0 THEN 0 ELSE 10 * DigitsVal(DropLast(s)) + DigitVal(s[Len(s)])

\* int(s): optional sign, then digits; raises ValueError otherwise
IntBody(s) == IF Len(s) > 0 /\ s[1] \in {"-", "+"} THEN Tail(s) ELSE s
IntOk(s) == IsDigit(IntBody(Strip(s)))
IntVal(s) ==
    LET t == Strip(s)
    IN  IF Len(t) > 0 /\ t[1] = "-" THEN 0 - DigitsVal(IntBody(t))
        ELSE DigitsVal(IntBody(t))

\* float(s) for decimal literals: optional sign, digits with at most one
\* point and at least one digit.  The value is kept in tenths, which is
\* exact for the one-decimal coordinates of HURDAT2 (further decimals are
\* outside the inputs of this model).
FloatBody(s) == IntBody(Strip(s))
PointAt(s) == IF \E i \in 1..Len(s) : s[i] = "."
              THEN CHOOSE i \in 1..Len(s) : s[i] = "." /\ \A j \in 1..(i - 1) : s[j] # "."
              ELSE 0
FloatOk(s) ==
    LET b == FloatBody(s)
        p == PointAt(b)
        ip == IF p = 0 THEN b ELSE SubSeq(b, 1, p - 1)
        fp == IF p = 0 THEN <<>> ELSE SubSeq(b, p + 1, Len(b))
    IN  /\ Len(ip) + Len(fp) > 0
        /\ \A i \in 1..Len(ip) : ip[i] \in Digits
        /\ \A i \in 1..Len(fp) : fp[i] \in Digits
FloatTenths(s) ==
    LET t == Strip(s)
        b == FloatBody(s)
        p == PointAt(b)
        ip == IF p = 0 THEN b ELSE SubSeq(b, 1, p - 1)
        fp == IF p = 0 THEN <<>> ELSE SubSeq(b, p + 1, Len(b))
        mag == 10 * DigitsVal(ip) + (IF Len(fp) > 0 THEN DigitVal(fp[1]) ELSE 0)
    IN  IF Len(t) > 0 /\ t[1] = "-" THEN 0 - mag ELSE mag

(***************************************************************************)
(* Input lines.  A text is a sequence of line names; Line gives the raw    *)
(* characters of each.  HF, F1, F2, F3 are the FRANCES scenario; HJ is a   *)
(* header as NOAA writes it (trailing comma); H2 a header with two fields;  *)
(* HX a header whose point count is not a number; NR a 2004 point 26.6 NM  *)
(* from the reference point; OLD a 1999 point on the reference point with  *)
(* a blank wind field; DS a data line with five fields; DB and DE data     *)
(* lines with a non-numeric and an empty latitude; BL a blank line.        *)
(***************************************************************************)
Line_HF ==
    <<"A", "L", "0", "9", "2", "0", "0", "4", ",", "F", "R", "A", "N", "C", "E", "S", ",", "3">>
Line_HJ ==
    <<"A", "L", "1", "1", "2", "0", "0", "4", ",", " ", "J", "E", "A", "N", "N", "E", ",", " ", "2", ",", " ">>
Line_H2 ==
    <<"A", "L", "1", "2", "2", "0", "0", "4", ",", " ", "K", "A", "R", "L">>
Line_HX ==
    <<"A", "L", "1", "3", "2", "0", "0", "4", ",", " ", "L", "I", "S", "A", ",", " ", "x">>
\* a storm whose name sorts before FRANCES and whose id sorts after it
Line_HA ==
    <<"A", "L", "1", "2", "2", "0", "0", "4", ",", " ", "A", "L", "P", "H", "A", ",", " ", "1">>
\* a second storm of 2004 with the name of AL092004
Line_HG ==
    <<"A", "L", "1", "4", "2", "0", "0", "4", ",", " ", "F", "R", "A", "N", "C", "E", "S", ",", " ", "1">>
Line_F1 ==
    <<"2", "0", "0", "4", "0", "9", "0", "4", ",", " ", "1", "2", "0", "0", ",", " ", ",", " ", "H", "U", ",", " ", "2", "8", ".", "0", "N", ",", " ", "8", "0", ".", "0", "W", ",", " ", "9", "5", ",", " ", "9", "6", "0">>
Line_F2 ==
    <<"2", "0", "0", "4", "0", "9", "0", "5", ",", " ", "0", "0", "0", "0", ",", " ", "L", ",", " ", "H", "U", ",", " ", "2", "7", ".", "0", "N", ",", " ", "8", "1", ".", "0", "W", ",", " ", "9", "0", ",", " ", "-", "9", "9", "9">>
Line_F3 ==
    <<"2", "0", "0", "4", "0", "9", "0", "6", ",", " ", "0", "0", "0", "0", ",", " ", ",", " ", "T", "S", ",", " ", "2", "6", ".", "0", "N", ",", " ", "8", "2", ".", "5", "W", ",", " ", "8", "5", ",", " ", "9", "7", "0">>
Line_NR ==
    <<"2", "0", "0", "4", "0", "9", "0", "5", ",", " ", "1", "2", "0", "0", ",", " ", ",", " ", "H", "U", ",", " ", "2", "7", ".", "5", "N", ",", " ", "8", "2", ".", "5", "W", ",", " ", "1", "0", "0", ",", " ", "9", "5", "0">>
Line_OLD ==
    <<"1", "9", "9", "9", "1", "2", "3", "1", ",", " ", "1", "8", "0", "0", ",", " ", ",", " ", "T", "S", ",", " ", "2", "7", ".", "5", "N", ",", " ", "8", "2", ".", "0", "W", ",", " ", ",", " ", "1", "0", "0", "0">>
Line_DS ==
    <<"2", "0", "0", "4", "0", "9", "0", "7", ",", " ", "0", "0", "0", "0", ",", " ", ",", " ", "T", "S", ",", " ", "2", "7", ".", "5", "N">>
Line_DB ==
    <<"2", "0", "0", "4", "0", "9", "0", "7", ",", " ", "0", "6", "0", "0", ",", " ", ",", " ", "T", "S", ",", " ", "2", "x", ".", "5", "N", ",", " ", "8", "2", ".", "0", "W", ",", " ", "4", "0", ",", " ", "1", "0", "0", "5">>
Line_DE ==
    <<"2", "0", "0", "4", "0", "9", "0", "7", ",", " ", "1", "2", "0", "0", ",", " ", ",", " ", "T", "S", ",", " ", ",", " ", "8", "2", ".", "0", "W", ",", " ", "4", "0", ",", " ", "1", "0", "0", "5">>
Line_BL ==
    <<>>
\* a 2004 point on the reference point with wind 0 and pressure -99
Line_Z0 ==
    <<"2", "0", "0", "4", "0", "9", "0", "5", ",", " ", "1", "8", "0", "0", ",", " ", ",", " ", "T", "D", ",", " ", "2", "7", ".", "5", "N", ",", " ", "8", "2", ".", "0", "W", ",", " ", "0", ",", " ", "-", "9", "9">>

Line(n) ==
    CASE n = "HF" -> Line_HF
      [] n = "HJ" -> Line_HJ
      [] n = "HA" -> Line_HA
      [] n = "HG" -> Line_HG
      [] n = "H2" -> Line_H2
      [] n = "HX" -> Line_HX
      [] n = "F1" -> Line_F1
      [] n = "F2" -> Line_F2
      [] n = "F3" -> Line_F3
      [] n = "NR" -> Line_NR
      [] n = "OLD" -> Line_OLD
      [] n = "DS" -> Line_DS
      [] n = "DB" -> Line_DB
      [] n = "DE" -> Line_DE
      [] n = "BL" -> Line_BL
      [] n = "Z0" -> Line_Z0

\* the raw lines of a text
Lines(t) == [i \in 1..Len(t) |-> Line(t[i])]

\* whitespace-only line
IsBlank(l) == Len(Strip(l)) = 0

\* text.strip().splitlines(): blank lines at either end of the text are gone
RECURSIVE DropLeadingBlank(_)
DropLeadingBlank(ls) ==
    IF Len(ls) > 0 /\ IsBlank(ls[1]) THEN DropLeadingBlank(Tail(ls)) ELSE ls

RECURSIVE DropTrailingBlank(_)
DropTrailingBlank(ls) ==
    IF Len(ls) > 0 /\ IsBlank(ls[Len(ls)]) THEN DropTrailingBlank(DropLast(ls)) ELSE ls

StripSplitLines(ls) == DropTrailingBlank(DropLeadingBlank(ls))

(***************************************************************************)
(* capstone_data_pipeline.parse_hurdat2.  The result is the list of        *)
(* records; storm_id and storm_name are None until a header is seen.       *)
(***************************************************************************)
\* parts[0].startswith(("AL", "EP", "CP")) and len(parts) >= 3
CapstoneIsHeader(parts) ==
    /\ \/ StartsWith(parts[1], <<"A", "L">>)
       \/ StartsWith(parts[1], <<"E", "P">>)
       \/ StartsWith(parts[1], <<"C", "P">>)
    /\ Len(parts) >= 3

\* len(parts) >= 8 and len(parts[0]) == 8 and parts[0].isdigit()
CapstoneIsData(parts) ==
    Len(parts) >= 8 /\ Len(parts[1]) = 8 /\ IsDigit(parts[1])

\* float(s[:-1]) does not raise (an empty s raises in float("") already)
CoordOk(s) == FloatOk(DropLast(s))

\* float(lat_str[:-1]) * (1 if lat_str[-1] == "N" else -1)
CapstoneLat(s) ==
    FloatTenths(DropLast(s)) * (IF s[Len(s)] = "N" THEN 1 ELSE -1)

\* float(lon_str[:-1]) * (-1 if lon_str[-1] == "W" else 1)
CapstoneLon(s) ==
    FloatTenths(DropLast(s)) * (IF s[Len(s)] = "W" THEN -1 ELSE 1)

\* int(x) if x not in ("", "-999", "-99") else None; None on ValueError
CapstoneInt(s) ==
    IF s \in {<<>>, <<"-", "9", "9", "9">>, <<"-", "9", "9">>} THEN None
    ELSE IF IntOk(s) THEN Some(IntVal(s)) ELSE None

CapstoneRecord(parts, cur_id, cur_name) ==
    [storm_id |-> cur_id, storm_name |-> cur_name,
     date |-> parts[1], time |-> parts[2], record_id |-> parts[3],
     status |-> parts[4],
     lat |-> CapstoneLat(parts[5]), lon |-> CapstoneLon(parts[6]),
     max_wind |-> CapstoneInt(parts[7]), min_pressure |-> CapstoneInt(parts[8])]

RECURSIVE CapstoneParseFrom(_, _, _, _, _)
CapstoneParseFrom(ls, i, cur_id, cur_name, acc) ==
    IF i > Len(ls) THEN acc
    ELSE LET parts == StripParts(ls[i])
         IN  IF CapstoneIsHeader(parts)
             THEN CapstoneParseFrom(ls, i + 1, Some(parts[1]), Some(Strip(parts[2])), acc)
             ELSE IF CapstoneIsData(parts) /\ CoordOk(parts[5]) /\ CoordOk(parts[6])
             THEN CapstoneParseFrom(ls, i + 1, cur_id, cur_name,
                                    Append(acc, CapstoneRecord(parts, cur_id, cur_name)))
             ELSE CapstoneParseFrom(ls, i + 1, cur_id, cur_name, acc)

CapstoneParseHurdat2(t) ==
    CapstoneParseFrom(StripSplitLines(Lines(t)), 1, None, None, <<>>)

(***************************************************************************)
(* filter/filter_florida_storms_60nm.parse_hurdat2.                        *)
(***************************************************************************)
\* int(x) if x.isdigit() else None
DigitInt(s) == IF IsDigit(s) THEN Some(DigitsVal(s)) ELSE None

\* float(lat_str[:-1]) * (1 if lat_str[-1] == "N" else -1)
Filter60Lat(s) == FloatTenths(DropLast(s)) * (IF s[Len(s)] = "N" THEN 1 ELSE -1)

\* float(lon_str[:-1]) * (1 if lon_str[-1] == "E" else -1)
Filter60Lon(s) == FloatTenths(DropLast(s)) * (IF s[Len(s)] = "E" THEN 1 ELSE -1)

\* the try block of a data line completes: both floats and int(date_str[:4])
Filter60DataOk(parts) ==
    CoordOk(parts[5]) /\ CoordOk(parts[6]) /\ IntOk(Slice(parts[1], 0, 4))

Filter60Record(parts, cur) ==
    [storm_id |-> cur.id, storm_name |-> cur.name,
     date |-> parts[1], time |-> parts[2], status |-> parts[4],
     lat |-> Filter60Lat(parts[5]), lon |-> Filter60Lon(parts[6]),
     max_wind |-> DigitInt(parts[7]), min_pressure |-> DigitInt(parts[8]),
     year |-> IntVal(Slice(parts[1], 0, 4))]

\* cur is None or Some([id, name]), the current_storm dict
RECURSIVE Filter60ParseFrom(_, _, _, _)
Filter60ParseFrom(ls, i, cur, acc) ==
    IF i > Len(ls) THEN acc
    ELSE LET line == Strip(ls[i])
             raw == Split(line, ",")
             parts == StripParts(line)
         IN  IF Len(line) = 0 THEN Filter60ParseFrom(ls, i + 1, cur, acc)
             ELSE IF IsAlpha(line[1])
             THEN IF Len(raw) >= 3
                  THEN Filter60ParseFrom(ls, i + 1,
                           Some([id |-> Strip(raw[1]), name |-> Strip(raw[2])]), acc)
                  ELSE Filter60ParseFrom(ls, i + 1, cur, acc)
             ELSE IF cur.some /\ Len(parts) >= 8 /\ Filter60DataOk(parts)
             THEN Filter60ParseFrom(ls, i + 1, cur,
                                    Append(acc, Filter60Record(parts, cur.v)))
             ELSE Filter60ParseFrom(ls, i + 1, cur, acc)

Filter60ParseHurdat2(t) == Filter60ParseFrom(Lines(t), 1, None, <<>>)

(***************************************************************************)
(* download_hurricane_data.parse_hurdat2.  The result is [raised, records]: *)
(* an exception that leaves the function loses the records.                *)
(***************************************************************************)
\* pd.to_datetime(date, format='%Y%m%d') accepts the string
DaysIn(m, y) ==
    IF m \in {4, 6, 9, 11} THEN 30
    ELSE IF m = 2 THEN (IF y % 4 = 0 /\ (y % 100 # 0 \/ y % 400 = 0) THEN 29 ELSE 28)
    ELSE 31
DateOk(d) ==
    /\ Len(d) = 8 /\ IsDigit(d)
    /\ LET y == DigitsVal(SubSeq(d, 1, 4))
           m == DigitsVal(SubSeq(d, 5, 6))
           dd == DigitsVal(SubSeq(d, 7, 8))
       IN  m \in 1..12 /\ dd >= 1 /\ dd <= DaysIn(m, y)

\* one record of the loop; year is added after the loop
DownloadRecord(parts, cur) ==
    [storm_id |-> cur.id, storm_name |-> cur.name,
     date |-> parts[1], time |-> parts[2], record_id |-> parts[3],
     status |-> parts[4],
     lat |-> Filter60Lat(parts[5]), lon |-> Filter60Lon(parts[6]),
     max_wind |-> DigitInt(parts[7]), min_pressure |-> DigitInt(parts[8])]

\* the header branch: int(parts[2].strip()) is outside any try
DownloadHeaderRaises(raw) == Len(raw) >= 2 /\ (Len(raw) < 3 \/ ~IntOk(raw[3]))

RECURSIVE DownloadParseFrom(_, _, _, _)
DownloadParseFrom(ls, i, cur, acc) ==
    IF i > Len(ls) THEN [raised |-> FALSE, records |-> acc]
    ELSE LET line == Strip(ls[i])
             raw == Split(line, ",")
             parts == StripParts(line)
         IN  IF Len(line) = 0 THEN DownloadParseFrom(ls, i + 1, cur, acc)
             ELSE IF IsAlpha(line[1])
             THEN IF DownloadHeaderRaises(raw)
                  THEN [raised |-> TRUE, records |-> <<>>]
                  ELSE IF Len(raw) >= 2
                  THEN DownloadParseFrom(ls, i + 1,
                           Some([id |-> Strip(raw[1]), name |-> Strip(raw[2])]), acc)
                  ELSE DownloadParseFrom(ls, i + 1, cur, acc)
             ELSE IF cur.some /\ Len(parts) >= 8 /\ CoordOk(parts[5]) /\ CoordOk(parts[6])
             THEN DownloadParseFrom(ls, i + 1, cur,
                                    Append(acc, DownloadRecord(parts, cur.v)))
             ELSE DownloadParseFrom(ls, i + 1, cur, acc)

\* after the loop: df['date'] = pd.to_datetime(...); df['year'] = df['date'].dt.year
DownloadParseHurdat2(t) ==
    LET r == DownloadParseFrom(Lines(t), 1, None, <<>>)
    IN  IF r.raised THEN r
        ELSE IF \E i \in 1..Len(r.records) : ~DateOk(r.records[i].date)
        THEN [raised |-> TRUE, records |-> <<>>]
        ELSE [raised |-> FALSE,
              records |-> [i \in 1..Len(r.records) |->
                  r.records[i] @@ [year |-> DigitsVal(SubSeq(r.records[i].date, 1, 4))]]]

(***************************************************************************)
(* clean/clean_hurdat2._parse_hurdat2.                                     *)
(***************************************************************************)
\* _parse_lat: nan for an empty or non-numeric string, negative for S / s
CleanParseLat(raw) ==
    LET s == Strip(raw)
    IN  IF Len(s) = 0 THEN None
        ELSE IF ~FloatOk(DropLast(s)) THEN None
        ELSE Some((IF s[Len(s)] \in {"S", "s"} THEN -1 ELSE 1) * FloatTenths(DropLast(s)))

\* _parse_lon: negative for W / w
CleanParseLon(raw) ==
    LET s == Strip(raw)
    IN  IF Len(s) = 0 THEN None
        ELSE IF ~FloatOk(DropLast(s)) THEN None
        ELSE Some((IF s[Len(s)] \in {"W", "w"} THEN -1 ELSE 1) * FloatTenths(DropLast(s)))

\* pd.to_numeric(x, errors="coerce") on an integer literal; anything else at
\* these columns (blank, a coordinate with its hemisphere letter) is NaN
ToNumeric(s) == IF IntOk(s) THEN Some(IntVal(s)) ELSE None

\* _HEADER_PAT = ^(AL|EP|CP)
CleanIsHeader(parts) ==
    \/ StartsWith(parts[1], <<"A", "L">>)
    \/ StartsWith(parts[1], <<"E", "P">>)
    \/ StartsWith(parts[1], <<"C", "P">>)

CleanRecord(parts, cur_id, cur_name) ==
    [storm_id |-> cur_id, name |-> cur_name,
     date |-> parts[1], time |-> parts[2], record_type |-> parts[3],
     lat |-> CleanParseLat(parts[4]), lon |-> CleanParseLon(parts[5]),
     max_wind |-> ToNumeric(parts[6]), min_pressure |-> ToNumeric(parts[7]),
     extra |-> SubSeq(parts, 8, Len(parts))]

RECURSIVE CleanParseFrom(_, _, _, _, _)
CleanParseFrom(ls, i, cur_id, cur_name, acc) ==
    IF i > Len(ls) THEN acc
    ELSE LET parts == StripParts(ls[i])
         IN  IF CleanIsHeader(parts)
             THEN CleanParseFrom(ls, i + 1, parts[1],
                                 IF Len(parts) > 1 THEN parts[2] ELSE <<>>, acc)
             ELSE IF Len(parts) < 8
             THEN CleanParseFrom(ls, i + 1, cur_id, cur_name, acc)
             ELSE CleanParseFrom(ls, i + 1, cur_id, cur_name,
                                 Append(acc, CleanRecord(parts, cur_id, cur_name)))

CleanParseHurdat2(t) == CleanParseFrom(Lines(t), 1, <<>>, <<>>, <<>>)

(***************************************************************************)
(* filter_florida_landfall_hurricanes.hurdat_florida_landfalls.  The       *)
(* Florida geometry is fetched from outside; inside says whether a point   *)
(* falls in it.  The result is [raised, names].                            *)
(***************************************************************************)
UpperOf(c) ==
    CASE c = "a" -> "A" [] c = "b" -> "B" [] c = "c" -> "C" [] c = "d" -> "D"
      [] c = "e" -> "E" [] c = "f" -> "F" [] c = "g" -> "G" [] c = "h" -> "H"
      [] c = "i" -> "I" [] c = "j" -> "J" [] c = "k" -> "K" [] c = "l" -> "L"
      [] c = "m" -> "M" [] c = "n" -> "N" [] c = "o" -> "O" [] c = "p" -> "P"
      [] c = "q" -> "Q" [] c = "r" -> "R" [] c = "s" -> "S" [] c = "t" -> "T"
      [] c = "u" -> "U" [] c = "v" -> "V" [] c = "w" -> "W" [] c = "x" -> "X"
      [] c = "y" -> "Y" [] c = "z" -> "Z" [] OTHER -> c

\* str.upper()
Upper(s) == [i \in 1..Len(s) |-> UpperOf(s[i])]

\* parse_latlon does not raise
ParseLatLonOk(value) ==
    LET v == Strip(value)
    IN  Len(v) > 0 /\ v[Len(v)] \in {"N", "S", "E", "W"} /\ FloatOk(DropLast(v))

\* the header statements of one storm raise (IndexError or ValueError)
LandfallHeaderRaises(header) ==
    \/ Len(header) < 3
    \/ ~IntOk(header[3])
    \/ ~IntOk(Slice(header[1], 4, 8))

\* one data record of a storm raises
LandfallRecordRaises(record) ==
    \/ Len(record) < 3
    \/ /\ record[3] = <<"L">>
       /\ \/ Len(record) < 5
          \/ ~ParseLatLonOk(record[5])
          \/ Len(record) < 6
          \/ ~ParseLatLonOk(record[6])

\* for _ in range(entries): the records lines[idx .. idx + entries - 1]
RECURSIVE LandfallEntries(_, _, _, _, _, _)
LandfallEntries(ls, idx, left, key, inside, acc) ==
    IF left <= 0 THEN [raised |-> FALSE, names |-> acc, idx |-> idx]
    ELSE IF idx > Len(ls) THEN [raised |-> TRUE, names |-> {}, idx |-> idx]
    ELSE LET record == StripParts(ls[idx])
         IN  IF LandfallRecordRaises(record)
             THEN [raised |-> TRUE, names |-> {}, idx |-> idx]
             ELSE LandfallEntries(ls, idx + 1, left - 1, key, inside,
                      IF record[3] = <<"L">> /\ inside THEN acc \cup {key} ELSE acc)

RECURSIVE LandfallFrom(_, _, _, _)
LandfallFrom(ls, idx, inside, acc) ==
    IF idx > Len(ls) THEN [raised |-> FALSE, names |-> acc]
    ELSE LET header == StripParts(ls[idx])
         IN  IF LandfallHeaderRaises(header) THEN [raised |-> TRUE, names |-> {}]
             ELSE LET key == <<Upper(Strip(header[2])), IntVal(Slice(header[1], 4, 8))>>
                      r == LandfallEntries(ls, idx + 1, IntVal(header[3]), key, inside, acc)
                  IN  IF r.raised THEN [raised |-> TRUE, names |-> {}]
                      ELSE LandfallFrom(ls, r.idx, inside, r.names)

HurdatFloridaLandfalls(t, inside) == LandfallFrom(Lines(t), 1, inside, {})

(***************************************************************************)
(* haversine_nm / haversine_distance, in fixed point.  Angles and the      *)
(* haversine term are scaled by FixScale = 10^8; products are taken in     *)
(* halves of FixBase = 10^4 so that every intermediate value stays below   *)
(* 2^31.  sin, cos and asin are their Taylor series.  The result is in     *)
(* thousandths of a nautical mile; it agrees with the floating-point code  *)
(* to 0.1 NM for points within a few hundred NM of the reference point.    *)
(***************************************************************************)
FixScale == 100000000
FixBase == 10000
\* pi / 1800 * 10^8: radians of a tenth of a degree
RadPerTenth == 174533
\* 2 * R_NM * 1000 with R_NM = 3440.065
TwoRadiusMilli == 6880130
\* terms kept of each series
SeriesTerms == 7

Abs(x) == IF x < 0 THEN 0 - x ELSE x

\* x * y / 10^8 for x, y >= 0
Mul(x, y) ==
    LET xh == x \div FixBase
        xl == x % FixBase
        yh == y \div FixBase
        yl == y % FixBase
    IN  xh * yh + (xh * yl + xl * yh) \div FixBase + (xl * yl) \div FixScale

\* math.radians of a coordinate in tenths of a degree
Radians(t) == t * RadPerTenth

\* sin(x) for 0 <= x <= pi / 2
RECURSIVE SinFrom(_, _, _, _)
SinFrom(x2, term, k, acc) ==
    IF k > SeriesTerms THEN acc
    ELSE LET nt == Mul(term, x2) \div ((2 * k) * (2 * k + 1))
         IN  SinFrom(x2, nt, k + 1, IF k % 2 = 1 THEN acc - nt ELSE acc + nt)
Sin(x) == SinFrom(Mul(x, x), x, 1, x)

\* cos(x) for 0 <= x <= pi / 2
RECURSIVE CosFrom(_, _, _, _)
CosFrom(x2, term, k, acc) ==
    IF k > SeriesTerms THEN acc
    ELSE LET nt == Mul(term, x2) \div ((2 * k - 1) * (2 * k))
         IN  CosFrom(x2, nt, k + 1, IF k % 2 = 1 THEN acc - nt ELSE acc + nt)
Cos(x) == CosFrom(Mul(x, x), FixScale, 1, FixScale)

\* floor of the square root of n < 2^31
RECURSIVE ISqrtIn(_, _, _)
ISqrtIn(n, lo, hi) ==
    IF lo >= hi THEN lo
    ELSE LET mid == (lo + hi + 1) \div 2
         IN  IF mid * mid <= n THEN ISqrtIn(n, mid, hi) ELSE ISqrtIn(n, lo, mid - 1)
ISqrt(n) == ISqrtIn(n, 0, 46340)

\* math.sqrt(a) at scale 10^8, with as many digits as fit
Sqrt(a) ==
    IF a <= 214748 THEN ISqrt(a * 10000) * 100
    ELSE IF a <= 21474836 THEN ISqrt(a * 100) * 1000
    ELSE ISqrt(a) * 10000

\* math.asin(y) with y = sqrt(a): y * (1 + a/6 + 3a^2/40 + ...)
RECURSIVE AsinFrom(_, _, _, _)
AsinFrom(a, term, k, acc) ==
    IF k > SeriesTerms THEN acc
    ELSE LET nt == (Mul(term, a) * (2 * k - 1) * (2 * k - 1)) \div ((2 * k) * (2 * k + 1))
         IN  AsinFrom(a, nt, k + 1, acc + nt)
AsinSqrt(a) == LET y == Sqrt(a) IN AsinFrom(a, y, 1, y)

HaversineDropsTwo(lat1, lon1, lat2, lon2) ==
    LET dlat == Radians(lat2) - Radians(lat1)
        dlon == Radians(lon2) - Radians(lon1)
        s1 == Sin(Abs(dlat) \div 2)
        s2 == Sin(Abs(dlon) \div 2)
        a == Mul(s1, s1)
             + Mul(Mul(Cos(Abs(Radians(lat1))), Cos(Abs(Radians(lat2)))), Mul(s2, s2))
    IN  Mul(AsinSqrt(a), TwoRadiusMilli \div 2)

\* 2 * R_NM * asin(sqrt(sin(dlat/2)^2 + cos(lat1) cos(lat2) sin(dlon/2)^2))
HaversineNm(lat1, lon1, lat2, lon2) ==
    LET dlat == Radians(lat2) - Radians(lat1)
        dlon == Radians(lon2) - Radians(lon1)
        s1 == Sin(Abs(dlat) \div 2)
        s2 == Sin(Abs(dlon) \div 2)
        a == Mul(s1, s1)
             + Mul(Mul(Cos(Abs(Radians(lat1))), Cos(Abs(Radians(lat2)))), Mul(s2, s2))
    IN  Mul(AsinSqrt(a), TwoRadiusMilli)

\* round(d, 1): thousandths to tenths of a nautical mile
Round1(d) == (d + 50) \div 100

\* FL_CENTER_LAT, FL_CENTER_LON, in tenths of a degree
FL_CENTER_LAT == 275
FL_CENTER_LON == -820
\* FL_PROXIMITY_NM / MAX_DISTANCE_NM
FL_PROXIMITY_NM == 60
\* year ranges: capstone 2000-2025, the filter scripts 2004-2025
CAPSTONE_YEAR_MIN == 2000
YEAR_MIN == 2004
YEAR_MAX == 2025

\* distance of a record to the Florida centre, thousandths of a NM
DistToFlorida(rec) == HaversineNm(FL_CENTER_LAT, FL_CENTER_LON, rec.lat, rec.lon)

(***************************************************************************)
(* capstone_data_pipeline Section 4b: the proximity filter loop.           *)
(***************************************************************************)
\* int(rec["date"][:4])
RecYear(rec) == IntVal(Slice(rec.date, 0, 4))

\* the loop, with the minimum taken before the year test
RECURSIVE CapstoneFilterMinAll(_, _, _, _, _)
CapstoneFilterMinAll(recs, i, thr, ids, mind) ==
    IF i > Len(recs) THEN [ids |-> ids, mind |-> mind]
    ELSE LET rec == recs[i]
             year == RecYear(rec)
             dist == DistToFlorida(rec)
             sid == rec.storm_id
             mind2 == IF sid \notin DOMAIN mind \/ dist < mind[sid]
                      THEN (sid :> dist) @@ mind ELSE mind
         IN  IF year < CAPSTONE_YEAR_MIN \/ year > YEAR_MAX
             THEN CapstoneFilterMinAll(recs, i + 1, thr, ids, mind2)
             ELSE CapstoneFilterMinAll(recs, i + 1, thr,
                      IF dist <= thr * 1000 THEN ids \cup {sid} ELSE ids, mind2)

\* for rec in track_records: ... ; thr is FL_PROXIMITY_NM
RECURSIVE CapstoneFilterFrom(_, _, _, _, _)
CapstoneFilterFrom(recs, i, thr, ids, mind) ==
    IF i > Len(recs) THEN [ids |-> ids, mind |-> mind]
    ELSE LET rec == recs[i]
             year == RecYear(rec)
             dist == DistToFlorida(rec)
             sid == rec.storm_id
         IN  IF year < CAPSTONE_YEAR_MIN \/ year > YEAR_MAX
             THEN CapstoneFilterFrom(recs, i + 1, thr, ids, mind)
             ELSE CapstoneFilterFrom(recs, i + 1, thr,
                      IF dist <= thr * 1000 THEN ids \cup {sid} ELSE ids,
                      IF sid \notin DOMAIN mind \/ dist < mind[sid]
                      THEN (sid :> dist) @@ mind ELSE mind)

\* the loop with the minimum over every point of the storm
CapstoneProximityMinAll(recs, thr) == CapstoneFilterMinAll(recs, 1, thr, {}, <<>>)

\* florida_storm_ids and storm_min_dist after the loop
CapstoneProximity(recs, thr) == CapstoneFilterFrom(recs, 1, thr, {}, <<>>)

(***************************************************************************)
(* Section 4b: the storm summary rows and the sorted florida_storms_df.    *)
(***************************************************************************)
\* [r for r in recs if keep(r)], in order
RECURSIVE SelectIdx(_, _, _)
SelectIdx(recs, i, sid) ==
    IF i > Len(recs) THEN <<>>
    ELSE IF recs[i].storm_id = sid THEN <<recs[i]>> \o SelectIdx(recs, i + 1, sid)
    ELSE SelectIdx(recs, i + 1, sid)
StormPoints(recs, sid) == SelectIdx(recs, 1, sid)

\* max(xs) / min(xs) over the present values of one field; None if none
PresentVals(pts, f) == {pts[i][f].v : i \in {j \in 1..Len(pts) : pts[j][f].some}}
MaxOf(S) == CHOOSE x \in S : \A y \in S : y <= x
MinOf(S) == CHOOSE x \in S : \A y \in S : x <= y
MaxOrNone(S) == IF S = {} THEN None ELSE Some(MaxOf(S))
MinOrNone(S) == IF S = {} THEN None ELSE Some(MinOf(S))

CapstoneSummaryRow(recs, sid, mind) ==
    LET pts == StormPoints(recs, sid)
    IN  [storm_id |-> sid,
         storm_name |-> pts[1].storm_name,
         year |-> RecYear(pts[1]),
         closest_distance_nm |-> Round1(mind[sid]),
         max_wind_kt |-> MaxOrNone(PresentVals(pts, "max_wind")),
         min_pressure_mb |-> MinOrNone(PresentVals(pts, "min_pressure")),
         has_florida_landfall |-> \E i \in 1..Len(pts) : pts[i].record_id = <<"L">>]

CapstoneSummaryRows(recs, ids, mind) ==
    {CapstoneSummaryRow(recs, sid, mind) : sid \in ids}

\* character order of the characters that occur in names
Alphabet == <<" ", "(", ")", "-", ".", "0", "1", "2", "3", "4", "5", "6", "7", "8", "9",
              "A", "B", "C", "D", "E", "F", "G", "H", "I", "J", "K", "L", "M",
              "N", "O", "P", "Q", "R", "S", "T", "U", "V", "W", "X", "Y", "Z",
              "a", "b", "c", "d", "e", "f", "g", "h", "i", "j", "k", "l", "m",
              "n", "o", "p", "q", "r", "s", "t", "u", "v", "w", "x", "y", "z">>
Ord(c) == CHOOSE i \in 1..Len(Alphabet) : Alphabet[i] = c

\* a <= b for strings
RECURSIVE StrLeq(_, _)
StrLeq(a, b) ==
    IF Len(a) = 0 THEN TRUE
    ELSE IF Len(b) = 0 THEN FALSE
    ELSE IF a[1] = b[1] THEN StrLeq(Tail(a), Tail(b))
    ELSE Ord(a[1]) < Ord(b[1])

\* a name column value sorts before another: None (NaN) sorts last
NameLeq(a, b) ==
    IF ~b.some THEN TRUE ELSE IF ~a.some THEN FALSE ELSE StrLeq(a.v, b.v)

\* sort key (year, storm_name)
SummaryLeq(r1, r2) ==
    \/ r1.year < r2.year
    \/ r1.year = r2.year /\ NameLeq(r1.storm_name, r2.storm_name)

\* the orders sort_values(["year", "storm_name"]) can leave the rows in:
\* rows with equal keys come in the order the set was iterated
Arrangements(rows) ==
    {q \in [1..Cardinality(rows) -> rows] :
        /\ \A i, j \in DOMAIN q : i # j => q[i] # q[j]
        /\ \A i, j \in DOMAIN q : i < j => SummaryLeq(q[i], q[j])}

(***************************************************************************)
(* filter_florida_storms_60nm.filter_and_save: filter, detail records and  *)
(* the summary rows written to florida_storms_60nm_summary.csv.            *)
(***************************************************************************)
InYears(y, lo, hi) == lo <= y /\ y <= hi

\* storm_ids = {r["storm_id"] for r in filtered}
Filter60StormIds(recs, thr) ==
    {recs[i].storm_id : i \in {j \in 1..Len(recs) :
        /\ DistToFlorida(recs[j]) <= thr * 1000
        /\ InYears(recs[j].year, YEAR_MIN, YEAR_MAX)}}

\* final_records, each with its distance_nm = round(dist, 1)
RECURSIVE Filter60FinalFrom(_, _, _)
Filter60FinalFrom(recs, i, ids) ==
    IF i > Len(recs) THEN <<>>
    ELSE IF recs[i].storm_id \in ids /\ InYears(recs[i].year, YEAR_MIN, YEAR_MAX)
    THEN <<recs[i] @@ [distance_nm |-> Round1(DistToFlorida(recs[i]))]>>
         \o Filter60FinalFrom(recs, i + 1, ids)
    ELSE Filter60FinalFrom(recs, i + 1, ids)
Filter60FinalRecords(recs, ids) == Filter60FinalFrom(recs, 1, ids)

\* max((r[f] for r in storm_records if r[f]), default=None): a recorded 0
\* is falsy and is left out like None
TruthyVals(pts, f) ==
    {pts[i][f].v : i \in {j \in 1..Len(pts) : pts[j][f].some /\ pts[j][f].v # 0}}

Filter60SummaryRow(final, sid) ==
    LET pts == StormPoints(final, sid)
    IN  [Year |-> pts[1].year, Storm |-> pts[1].storm_name, ID |-> sid,
         Closest |-> MinOf({pts[i].distance_nm : i \in 1..Len(pts)}),
         MaxWind |-> MaxOrNone(TruthyVals(pts, "max_wind")),
         MinPressure |-> MinOrNone(TruthyVals(pts, "min_pressure"))]

\* for sid in sorted(storm_ids), then the stable sort by Year
Filter60Summary(final, ids) ==
    LET rows == {Filter60SummaryRow(final, sid) : sid \in ids}
    IN  IF rows = {} THEN <<>>
        ELSE CHOOSE q \in [1..Cardinality(rows) -> rows] :
            /\ \A i, j \in DOMAIN q : i # j => q[i] # q[j]
            /\ \A i, j \in DOMAIN q : i < j =>
                   \/ q[i].Year < q[j].Year
                   \/ q[i].Year = q[j].Year /\ StrLeq(q[i].ID, q[j].ID)

(***************************************************************************)
(* download_hurricane_data.filter_florida_storms: the storms of            *)
(* filtered_df.                                                            *)
(***************************************************************************)
\* the storms with a point farther away than the threshold
DownloadFarStorms(recs, thr) ==
    {recs[i].storm_id : i \in {j \in 1..Len(recs) : DistToFlorida(recs[j]) > thr * 1000}}

DownloadCloseStorms(recs, thr) ==
    {recs[i].storm_id : i \in {j \in 1..Len(recs) : DistToFlorida(recs[j]) <= thr * 1000}}

DownloadFilteredIds(recs, thr) ==
    {recs[i].storm_id : i \in {j \in 1..Len(recs) :
        /\ recs[j].storm_id \in DownloadCloseStorms(recs, thr)
        /\ recs[j].year >= YEAR_MIN /\ recs[j].year <= YEAR_MAX}}

(***************************************************************************)
(* Economic events.  EventsJson are entries of the NOAA API response read  *)
(* by the capstone pipeline (adjCost in millions); the same events are     *)
(* rows of hurricane_economic_impacts_1980_2024_florida_landfall.csv for   *)
(* merge_hurricane_economic (event_name, data_year).                       *)
(***************************************************************************)
Name_FRANCES ==
    <<"H", "u", "r", "r", "i", "c", "a", "n", "e", " ", "F", "r", "a", "n", "c", "e", "s", " ", "(", "S", "e", "p", "t", "e", "m", "b", "e", "r", " ", "2", "0", "0", "4", ")">>
Name_JEANNE ==
    <<"H", "u", "r", "r", "i", "c", "a", "n", "e", " ", "J", "e", "a", "n", "n", "e", " ", "(", "S", "e", "p", "t", "e", "m", "b", "e", "r", " ", "2", "0", "0", "4", ")">>
Name_KATRINA ==
    <<"H", "u", "r", "r", "i", "c", "a", "n", "e", " ", "K", "a", "t", "r", "i", "n", "a", " ", "(", "A", "u", "g", "u", "s", "t", " ", "2", "0", "0", "5", ")">>

\* a JSON number, or a JSON string that is not a number
Num(n) == [num |-> TRUE, v |-> n]
NotNum == [num |-> FALSE, v |-> 0]

Event_FRANCES ==
    [name |-> Name_FRANCES, begDate |-> <<"2", "0", "0", "4", "0", "9", "0", "3">>,
     endDate |-> <<"2", "0", "0", "4", "0", "9", "0", "9">>, adjCost |-> Num(13904), deaths |-> 48]
Event_JEANNE ==
    [name |-> Name_JEANNE, begDate |-> <<"2", "0", "0", "4", "0", "9", "1", "5">>,
     endDate |-> <<"2", "0", "0", "4", "0", "9", "2", "9">>, adjCost |-> Num(10812), deaths |-> 28]
Event_KATRINA ==
    [name |-> Name_KATRINA, begDate |-> <<"2", "0", "0", "5", "0", "8", "2", "5">>,
     endDate |-> <<"2", "0", "0", "5", "0", "8", "3", "0">>, adjCost |-> Num(201300), deaths |-> 1833]

\* malformed events: adjCost "N/A"; begDate "2004-09"
Event_BADCOST ==
    [name |-> Name_KATRINA, begDate |-> <<"2", "0", "0", "5", "0", "8", "2", "5">>,
     endDate |-> <<"2", "0", "0", "5", "0", "8", "3", "0">>, adjCost |-> NotNum, deaths |-> 1833]
Event_BADDATE ==
    [name |-> Name_JEANNE, begDate |-> <<"S", "e", "p", " ", "2", "0", "0", "4">>,
     endDate |-> <<"2", "0", "0", "4", "0", "9", "2", "9">>, adjCost |-> Num(10812), deaths |-> 28]

AllEvents == <<Event_FRANCES, Event_KATRINA, Event_JEANNE>>

MalformedEventLists ==
    {<<Event_BADCOST, Event_FRANCES>>, <<Event_BADDATE, Event_FRANCES>>}

\* the events of a response: the first events of AllEvents, or a malformed
\* event followed by a well-formed one
EventLists == {SubSeq(AllEvents, 1, k) : k \in 0..Len(AllEvents)} \cup MalformedEventLists

\* index of the first "(" of s, 0 if none
ParenAt(s) == IF \E i \in 1..Len(s) : s[i] = "("
              THEN CHOOSE i \in 1..Len(s) : s[i] = "(" /\ \A j \in 1..(i - 1) : s[j] # "("
              ELSE 0

Prefix_Hurricane == <<"H", "u", "r", "r", "i", "c", "a", "n", "e", " ">>
Prefix_TropicalStorm == <<"T", "r", "o", "p", "i", "c", "a", "l", " ", "S", "t", "o", "r", "m", " ">>
Prefix_TropicalCyclone == <<"T", "r", "o", "p", "i", "c", "a", "l", " ", "C", "y", "c", "l", "o", "n", "e", " ">>

\* Section 4c: "Hurricane Frances (September 2004)" -> "FRANCES"
CapstoneCleanName(name) ==
    LET a == IF StartsWith(name, Prefix_Hurricane)
             THEN SubSeq(name, Len(Prefix_Hurricane) + 1, Len(name))
             ELSE IF StartsWith(name, Prefix_TropicalStorm)
             THEN SubSeq(name, Len(Prefix_TropicalStorm) + 1, Len(name))
             ELSE IF StartsWith(name, Prefix_TropicalCyclone)
             THEN SubSeq(name, Len(Prefix_TropicalCyclone) + 1, Len(name))
             ELSE name
        b == IF ParenAt(a) > 0 THEN Strip(SubSeq(a, 1, ParenAt(a) - 1)) ELSE a
    IN  Upper(b)

\* round(cost_millions / 1000, 2), in hundredths of a billion; halves go to
\* the even neighbour
RoundTenth(m) ==
    LET q == m \div 10
        r == m % 10
    IN  IF r > 5 \/ (r = 5 /\ q % 2 = 1) THEN q + 1 ELSE q

\* int(beg[:4]) if len(beg) >= 4 else None; None on ValueError
CapstoneEventYear(beg) ==
    IF Len(beg) >= 4 /\ IntOk(Slice(beg, 0, 4)) THEN Some(IntVal(Slice(beg, 0, 4)))
    ELSE None

CapstoneEconEvent(event) ==
    [event_name |-> event.name,
     storm_name_clean |-> CapstoneCleanName(event.name),
     year |-> CapstoneEventYear(event.begDate),
     begin_date |-> event.begDate, end_date |-> event.endDate,
     cost_usd_billion_cpi_adjusted |-> RoundTenth(event.adjCost.v),
     deaths |-> event.deaths]

\* econ_df: one row per event of the response
CapstoneEconEvents(evs) == [i \in 1..Len(evs) |-> CapstoneEconEvent(evs[i])]

(***************************************************************************)
(* Section 4d: econ_df.merge(florida_storms_df[...], on=[_merge_name,      *)
(* year], how="inner").                                                    *)
(***************************************************************************)
\* florida_storms_df["storm_name"].str.upper().str.strip(); NaN stays NaN
StormMergeName(row) ==
    IF row.storm_name.some THEN Some(Strip(Upper(row.storm_name.v))) ELSE None

\* econ_df["storm_name_clean"].str.strip()
EconMergeName(ev) == Some(Strip(ev.storm_name_clean))

EconKeyMatches(ev, row) ==
    EconMergeName(ev) = StormMergeName(row) /\ ev.year = Some(row.year)

EconJoined(ev, row) ==
    [event_name |-> ev.event_name, year |-> row.year,
     begin_date |-> ev.begin_date, end_date |-> ev.end_date,
     cost_usd_billion_cpi_adjusted |-> ev.cost_usd_billion_cpi_adjusted,
     deaths |-> ev.deaths,
     closest_distance_nm |-> Some(row.closest_distance_nm),
     max_wind_kt |-> row.max_wind_kt, min_pressure_mb |-> row.min_pressure_mb,
     has_florida_landfall |-> Some(row.has_florida_landfall)]

\* the joined rows of one event, in the order of the storm rows
RECURSIVE EconMatchesFrom(_, _, _)
EconMatchesFrom(ev, storms, j) ==
    IF j > Len(storms) THEN <<>>
    ELSE IF EconKeyMatches(ev, storms[j])
    THEN <<EconJoined(ev, storms[j])>> \o EconMatchesFrom(ev, storms, j + 1)
    ELSE EconMatchesFrom(ev, storms, j + 1)

RECURSIVE EconInnerJoinFrom(_, _, _)
EconInnerJoinFrom(evs, storms, i) ==
    IF i > Len(evs) THEN <<>>
    ELSE EconMatchesFrom(evs[i], storms, 1) \o EconInnerJoinFrom(evs, storms, i + 1)

\* if not florida_storms_df.empty and not econ_df.empty: inner merge;
\* else an empty frame
CapstoneMergeEcon(evs, storms) ==
    IF storms # <<>> /\ evs # <<>> THEN EconInnerJoinFrom(evs, storms, 1) ELSE <<>>

(***************************************************************************)
(* merge/merge_hurricane_economic: the summary CSV keyed by (name, year),  *)
(* and one output row per economic row.                                    *)
(***************************************************************************)
CsvName_FRANCES == <<"H", "u", "r", "r", "i", "c", "a", "n", "e", " ", "F", "r", "a", "n", "c", "e", "s">>
CsvName_JEANNE == <<"H", "u", "r", "r", "i", "c", "a", "n", "e", " ", "J", "e", "a", "n", "n", "e">>
CsvName_KATRINA == <<"H", "u", "r", "r", "i", "c", "a", "n", "e", " ", "K", "a", "t", "r", "i", "n", "a">>

CsvRow_FRANCES ==
    [event_name |-> CsvName_FRANCES, data_year |-> <<"2", "0", "0", "4">>,
     begin_date |-> <<"2", "0", "0", "4", "0", "9", "0", "3">>,
     end_date |-> <<"2", "0", "0", "4", "0", "9", "0", "9">>,
     cost_usd_billion_cpi_adjusted |-> <<"1", "3", ".", "9">>, deaths |-> <<"4", "8">>]
CsvRow_JEANNE ==
    [event_name |-> CsvName_JEANNE, data_year |-> <<"2", "0", "0", "4">>,
     begin_date |-> <<"2", "0", "0", "4", "0", "9", "1", "5">>,
     end_date |-> <<"2", "0", "0", "4", "0", "9", "2", "9">>,
     cost_usd_billion_cpi_adjusted |-> <<"1", "0", ".", "8", "1">>, deaths |-> <<"2", "8">>]
CsvRow_KATRINA ==
    [event_name |-> CsvName_KATRINA, data_year |-> <<"2", "0", "0", "5">>,
     begin_date |-> <<"2", "0", "0", "5", "0", "8", "2", "5">>,
     end_date |-> <<"2", "0", "0", "5", "0", "8", "3", "0">>,
     cost_usd_billion_cpi_adjusted |-> <<"2", "0", "1", ".", "3">>, deaths |-> <<"1", "8", "3", "3">>]

\* malformed rows: data_year "20x5"; data_year empty
CsvRow_BADYEAR == [CsvRow_KATRINA EXCEPT !.data_year = <<"2", "0", "x", "5">>]
CsvRow_NOYEAR == [CsvRow_KATRINA EXCEPT !.data_year = <<>>]

AllCsvRows == <<CsvRow_FRANCES, CsvRow_KATRINA, CsvRow_JEANNE>>

MalformedCsvRowLists ==
    {<<CsvRow_BADYEAR, CsvRow_FRANCES>>, <<CsvRow_NOYEAR, CsvRow_FRANCES>>}

CsvRowLists == {SubSeq(AllCsvRows, 1, k) : k \in 0..Len(AllCsvRows)} \cup MalformedCsvRowLists

\* extract_storm_name
ExtractStormName(event_name) ==
    IF StartsWith(event_name, Prefix_Hurricane)
    THEN Upper(Strip(SubSeq(event_name, Len(Prefix_Hurricane) + 1, Len(event_name))))
    ELSE IF StartsWith(event_name, Prefix_TropicalStorm)
    THEN Upper(Strip(SubSeq(event_name, Len(Prefix_TropicalStorm) + 1, Len(event_name))))
    ELSE Upper(Strip(event_name))

\* load_track_data: data[(name, year)] = row, a later row replacing an
\* earlier one with the same key; rows with an empty name or year 0 are left out
RECURSIVE LoadTrackFrom(_, _, _)
LoadTrackFrom(rows, i, data) ==
    IF i > Len(rows) THEN data
    ELSE LET name == Upper(Strip(rows[i].Storm))
             year == rows[i].Year
         IN  IF Len(name) > 0 /\ year # 0
             THEN LoadTrackFrom(rows, i + 1, (<<name, year>> :> rows[i]) @@ data)
             ELSE LoadTrackFrom(rows, i + 1, data)
LoadTrackData(rows) == LoadTrackFrom(rows, 1, <<>>)

MergeEconRow(econ_row, track_data) ==
    LET key == <<ExtractStormName(econ_row.event_name), IntVal(econ_row.data_year)>>
        found == key \in DOMAIN track_data
    IN  <<[event_name |-> econ_row.event_name, year |-> key[2],
           begin_date |-> econ_row.begin_date, end_date |-> econ_row.end_date,
           cost_usd_billion_cpi_adjusted |-> econ_row.cost_usd_billion_cpi_adjusted,
           deaths |-> econ_row.deaths,
           closest_distance_nm |-> IF found THEN Some(track_data[key].Closest) ELSE None,
           max_wind_kt |-> IF found THEN track_data[key].MaxWind ELSE None,
           min_pressure_mb |-> IF found THEN track_data[key].MinPressure ELSE None,
           storm_id |-> IF found THEN track_data[key].ID ELSE <<>>]>>

\* for econ_row in econ_rows: merged_rows.append(merged)
RECURSIVE MergeEconRowsFrom(_, _, _)
MergeEconRowsFrom(econ_rows, track_data, i) ==
    IF i > Len(econ_rows) THEN <<>>
    ELSE MergeEconRow(econ_rows[i], track_data)
         \o MergeEconRowsFrom(econ_rows, track_data, i + 1)

(***************************************************************************)
(* Section 5a-5b: the annual hurricane summary.  Data frames are sequences *)
(* of rows, a row a function from column names to values; a numeric cell    *)
(* is Some(v) or None (NaN).                                               *)
(***************************************************************************)
\* the rows of a frame that satisfy year = y, in order
RECURSIVE RowsOfYear(_, _, _)
RowsOfYear(rows, i, y) ==
    IF i > Len(rows) THEN <<>>
    ELSE IF rows[i].year = y THEN <<rows[i]>> \o RowsOfYear(rows, i + 1, y)
    ELSE RowsOfYear(rows, i + 1, y)

\* an ascending sequence of the numbers of S
RECURSIVE Ascending(_)
Ascending(S) == IF S = {} THEN <<>> ELSE <<MinOf(S)>> \o Ascending(S \ {MinOf(S)})

\* ("storm_id", "count"): the rows of the group whose storm_id is not null
CountIds(g) == Cardinality({i \in 1..Len(g) : g[i].storm_id.some})

AnnualRow(g, y) ==
    [hurricane_year |-> y,
     hurricane_count |-> Some(CountIds(g)),
     hurricane_max_wind_kt |-> MaxOrNone(PresentVals(g, "max_wind_kt")),
     hurricane_min_pressure_mb |-> MinOrNone(PresentVals(g, "min_pressure_mb")),
     hurricane_closest_nm |->
         Some(MinOf({g[i].closest_distance_nm : i \in 1..Len(g)}))]

\* one row per storm instead of one per year
AnnualPerStorm(storms) ==
    [i \in 1..Len(storms) |-> AnnualRow(<<storms[i]>>, storms[i].year)]

\* florida_storms_df.groupby("year").agg(...).reset_index()
AnnualGroupBy(storms) ==
    LET years == Ascending({storms[i].year : i \in 1..Len(storms)})
    IN  [k \in 1..Len(years) |-> AnnualRow(RowsOfYear(storms, 1, years[k]), years[k])]

RECURSIVE SumField(_, _, _)
SumField(rows, i, f) ==
    IF i > Len(rows) THEN 0 ELSE rows[i][f] + SumField(rows, i + 1, f)

\* hurricane_econ.groupby("year").agg(sum, sum), renamed to hurricane_year
AnnualEcon(he) ==
    LET years == Ascending({he[i].year : i \in 1..Len(he)})
    IN  [k \in 1..Len(years) |->
            LET g == RowsOfYear(he, 1, years[k])
            IN  [hurricane_year |-> years[k],
                 hurricane_total_cost_billion |->
                     Some(SumField(g, 1, "cost_usd_billion_cpi_adjusted")),
                 hurricane_total_deaths |-> Some(SumField(g, 1, "deaths"))]]

\* left.merge(right, on=key, how="left"): the rows of left in order, each
\* once per matching row of right, or once with NaN in right's columns
MatchIdx(right, key, v) == {j \in 1..Len(right) : right[j][key] = v}

RECURSIVE LeftMergeFrom(_, _, _, _, _)
LeftMergeFrom(left, right, key, cols, i) ==
    IF i > Len(left) THEN <<>>
    ELSE LET m == Ascending(MatchIdx(right, key, left[i][key]))
         IN  (IF m = <<>> THEN <<left[i] @@ [c \in cols \ {key} |-> None]>>
              ELSE [k \in 1..Len(m) |-> left[i] @@ right[m[k]]])
             \o LeftMergeFrom(left, right, key, cols, i + 1)

Columns(frame, empty_cols) == IF frame = <<>> THEN empty_cols ELSE DOMAIN frame[1]

\* how="inner": the rows of left without a match are left out
RECURSIVE InnerMergeFrom(_, _, _, _)
InnerMergeFrom(left, right, key, i) ==
    IF i > Len(left) THEN <<>>
    ELSE LET m == Ascending(MatchIdx(right, key, left[i][key]))
         IN  [k \in 1..Len(m) |-> left[i] @@ right[m[k]]]
             \o InnerMergeFrom(left, right, key, i + 1)
InnerMerge(left, right, key, empty_cols) == InnerMergeFrom(left, right, key, 1)

LeftMerge(left, right, key, empty_cols) ==
    LeftMergeFrom(left, right, key, Columns(right, empty_cols), 1)

\* frame[col] = frame[col].fillna(0) for each col of cols
FillNa(frame, cols) ==
    [i \in 1..Len(frame) |->
        [c \in DOMAIN frame[i] |->
            IF c \in cols /\ frame[i][c] = None THEN Some(0) ELSE frame[i][c]]]

\* the frame with the column left in
KeepColumn(frame, col) == frame

\* frame.drop(columns=[col])
DropColumn(frame, col) ==
    [i \in 1..Len(frame) |-> [c \in DOMAIN frame[i] \ {col} |-> frame[i][c]]]

AnnualBaseCols == {"hurricane_year", "hurricane_count", "hurricane_max_wind_kt",
                   "hurricane_min_pressure_mb", "hurricane_closest_nm"}
AnnualEconCols == {"hurricane_year", "hurricane_total_cost_billion",
                   "hurricane_total_deaths"}

\* 5b: if not hurricane_econ.empty: merge the annual economic totals, fill 0
AnnualWithEcon(annual, he) ==
    IF he = <<>> THEN annual
    ELSE FillNa(LeftMerge(annual, AnnualEcon(he), "hurricane_year", AnnualEconCols),
                {"hurricane_total_cost_billion", "hurricane_total_deaths"})

\* 5a: group a non-empty florida_storms_df, else an empty frame
AnnualSummary(storms) == IF storms # <<>> THEN AnnualGroupBy(storms) ELSE <<>>

\* 5a and 5b
AnnualHurricane(storms, he) == AnnualWithEcon(AnnualSummary(storms), he)

(***************************************************************************)
(* Section 5c-5e: the panel merge.                                         *)
(***************************************************************************)
\* the columns whose name starts with "hurricane_"
HurricaneCols == AnnualBaseCols \cup AnnualEconCols

\* zillow_panel["hurricane_year"] = zillow_panel["Date"].dt.year
WithHurricaneYear(panel) ==
    [i \in 1..Len(panel) |-> panel[i] @@ [hurricane_year |-> panel[i].Date.year]]

\* hurricane_fill_cols of a merged frame
HurricaneFillCols(frame) ==
    {c \in Columns(frame, {}) : c \in HurricaneCols /\ c # "hurricane_year"}

PanelMergeNoFill(panel, annual) ==
    DropColumn(LeftMerge(WithHurricaneYear(panel), annual, "hurricane_year", AnnualBaseCols),
               "hurricane_year")

\* 5d, 5e and the drop of the merge key
PanelMerge(panel, annual) ==
    LET m == LeftMerge(WithHurricaneYear(panel), annual, "hurricane_year", AnnualBaseCols)
    IN  DropColumn(FillNa(m, HurricaneFillCols(m)), "hurricane_year")

\* rows of the Zillow Metro x Month panel handed to Section 5
PanelRow_T0409 == [Metro |-> "Tampa", Date |-> [year |-> 2004, month |-> 9], ZHVI |-> Some(150)]
PanelRow_T0501 == [Metro |-> "Tampa", Date |-> [year |-> 2005, month |-> 1], ZHVI |-> None]
PanelRow_M0410 == [Metro |-> "Miami", Date |-> [year |-> 2004, month |-> 10], ZHVI |-> Some(210)]
AllPanelRows == <<PanelRow_T0409, PanelRow_T0501, PanelRow_M0410>>
Panels == {SubSeq(AllPanelRows, 1, k) : k \in 0..Len(AllPanelRows)}

(***************************************************************************)
(* Inputs and initial states.                                              *)
(***************************************************************************)
\* longest text of the pipeline runs, and of the parser runs
MaxLines == 4
MaxParseLines == 3

SeqsUpTo(S, n) == UNION {[1..k -> S] : k \in 0..n}

\* the FRANCES scenario
ScenarioText == <<"HF", "F1", "F2", "F3">>

PipelineLines == {"HF", "HJ", "F2", "NR", "OLD"}
Texts == SeqsUpTo(PipelineLines, MaxLines) \cup {ScenarioText}

ParseLines == {"HF", "HJ", "H2", "HX", "NR", "F2", "DS", "DB", "DE", "BL"}
ParseTexts == SeqsUpTo(ParseLines, MaxParseLines)

\* files of data/raw and data/processed
INPUT_FILE == "hurdat2_raw.txt"
OUTPUT_DETAIL == "florida_storms_60nm_2004_2025.csv"
OUTPUT_SUMMARY == "florida_storms_60nm_summary.csv"
CAPSTONE_STORMS_CSV == "florida_storms_60nm_2000_2025.csv"
TRACK_CSV == "florida_storms_60nm_summary.csv"
ECON_CSV == "hurricane_economic_impacts_1980_2024_florida_landfall.csv"
OUTPUT_CSV == "florida_hurricane_economic_merged.csv"

\* The files that are there when a script starts: the raw HURDAT2 text may be
\* missing (for the capstone script it is then fetched, or the fetch fails);
\* the economic CSV may be missing; merge_hurricane_economic run without the
\* storm filter before it (as build_master does) finds no track summary.
InputFiles(v, t) ==
    CASE v = "capstone" -> {{}, {INPUT_FILE}}
      [] v = "filter60" -> {fs \in SUBSET {INPUT_FILE, ECON_CSV} : INPUT_FILE \notin fs => t = <<>>}
      [] v = "merge" -> IF t = <<>> THEN SUBSET {ECON_CSV} ELSE {}
      [] OTHER -> {{}}

Blank ==
    /\ pc = "start"
    /\ raised = FALSE
    /\ track_records = <<>>
    /\ landfall_names = {}
    /\ storm_ids = {}
    /\ storm_min_dist = <<>>
    /\ florida_storms = <<>>
    /\ econ = <<>>
    /\ hurricane_econ = <<>>
    /\ annual_hurricane = <<>>
    /\ zillow_panel = <<>>
    /\ merged = <<>>
    /\ out = None
    /\ started = <<>>
    /\ failed = {}
    /\ top = "idle"
    /\ stage = 0
    /\ child = 0
    /\ exit_code = None
    /\ logged = {}
    /\ noaa_data = <<>>
    /\ status_file = [exists |-> FALSE, torn |-> FALSE, v |-> <<>>]
    /\ calls = <<>>

Init ==
    /\ variant \in {"capstone", "filter60", "download", "merge"}
    /\ text \in Texts
    /\ files \in InputFiles(variant, text)
    /\ arg = <<>>
    /\ Blank

ParseInit ==
    /\ variant \in {"capstone", "filter60", "download", "clean", "landfall"}
    /\ text \in ParseTexts
    /\ files = {INPUT_FILE}
    /\ arg = <<>>
    /\ Blank

(***************************************************************************)
(* capstone_data_pipeline, Sections 4 and 5.                               *)
(***************************************************************************)
\* 4a: track_records = parse_hurdat2(hurdat2_text)
CapstoneParse ==
    /\ variant = "capstone" /\ pc = "start"
    /\ \E fetched \in BOOLEAN :
          IF INPUT_FILE \in files \/ fetched
          THEN /\ files' = files \cup {INPUT_FILE}
               /\ track_records' = CapstoneParseHurdat2(text)
               /\ pc' = "parsed"
               /\ UNCHANGED <<raised, exit_code, logged>>
          ELSE /\ raised' = TRUE /\ pc' = "crashed"
               /\ exit_code' = Some(1)
               /\ logged' = logged \cup {[level |-> "traceback", about |-> INPUT_FILE]}
               /\ UNCHANGED <<files, track_records>>
    /\ UNCHANGED <<fnVars, runVars, inVars, stVars, variant, text, landfall_names, storm_ids, storm_min_dist,
                   florida_storms, econ, hurricane_econ, annual_hurricane,
                   zillow_panel, merged>>

\* 4b: the proximity loop
CapstoneFilter ==
    /\ variant = "capstone" /\ pc = "parsed"
    /\ LET r == CapstoneProximity(track_records, FL_PROXIMITY_NM)
       IN  storm_ids' = r.ids /\ storm_min_dist' = r.mind
    /\ pc' = "filtered"
    /\ UNCHANGED <<fnVars, runVars, inVars, stVars, ioVars, variant, text, raised, track_records, landfall_names,
                   florida_storms, econ, hurricane_econ, annual_hurricane,
                   zillow_panel, merged>>

\* 4b: the summary rows and pd.DataFrame(florida_storms).sort_values(...);
\* an empty list makes a frame without columns and sort_values raises KeyError
CapstoneSummary ==
    /\ variant = "capstone" /\ pc = "filtered"
    /\ LET rows == CapstoneSummaryRows(track_records, storm_ids, storm_min_dist)
       IN  IF rows = {}
           THEN /\ florida_storms' = <<>> /\ raised' = TRUE /\ pc' = "crashed"
                /\ exit_code' = Some(1)
                /\ logged' = logged \cup {[level |-> "traceback", about |-> "year"]}
                /\ files' = files
           ELSE /\ florida_storms' \in Arrangements(rows)
                /\ raised' = FALSE
                /\ pc' = "summarised"
                /\ files' = files \cup {CAPSTONE_STORMS_CSV}
                /\ UNCHANGED <<exit_code, logged>>
    /\ UNCHANGED <<fnVars, runVars, inVars, stVars, variant, text, track_records, landfall_names, storm_ids,
                   storm_min_dist, econ, hurricane_econ, annual_hurricane,
                   zillow_panel, merged>>

\* 4c: the economic events of the NOAA response
CapstoneEcon ==
    /\ variant = "capstone" /\ pc = "summarised"
    /\ \E evs \in EventLists :
          /\ noaa_data' = evs
          /\ UNCHANGED stVars
          /\ IF \E i \in 1..Len(evs) : ~evs[i].adjCost.num
             THEN /\ econ' = <<>>
                  /\ raised' = TRUE /\ pc' = "crashed"
                  /\ exit_code' = Some(1)
                  /\ logged' = logged \cup {[level |-> "traceback", about |-> "adjCost"]}
             ELSE /\ econ' = CapstoneEconEvents(evs)
                  /\ pc' = "econ"
                  /\ UNCHANGED <<raised, exit_code, logged>>
    /\ UNCHANGED files
    /\ UNCHANGED <<fnVars, runVars, variant, text, track_records, landfall_names, storm_ids,
                   storm_min_dist, florida_storms, hurricane_econ, annual_hurricane,
                   zillow_panel, merged>>

\* 4d: the hurricane-economic merge
CapstoneMerge ==
    /\ variant = "capstone" /\ pc = "econ"
    /\ hurricane_econ' = CapstoneMergeEcon(econ, florida_storms)
    /\ files' = IF CapstoneMergeEcon(econ, florida_storms) # <<>>
                THEN files \cup {OUTPUT_CSV} ELSE files
    /\ pc' = "econ_merged"
    /\ UNCHANGED <<exit_code, logged>>
    /\ UNCHANGED <<fnVars, runVars, inVars, stVars, variant, text, raised, track_records, landfall_names, storm_ids,
                   storm_min_dist, florida_storms, econ, annual_hurricane,
                   zillow_panel, merged>>

\* 5a, 5b: the annual summary
CapstoneAnnual ==
    /\ variant = "capstone" /\ pc = "econ_merged"
    /\ annual_hurricane' = AnnualHurricane(florida_storms, hurricane_econ)
    /\ pc' = "annual"
    /\ UNCHANGED <<fnVars, runVars, inVars, stVars, ioVars, variant, text, raised, track_records, landfall_names, storm_ids,
                   storm_min_dist, florida_storms, econ, hurricane_econ,
                   zillow_panel, merged>>

\* 5c-5e and the row-count assert
CapstonePanelMerge ==
    /\ variant = "capstone" /\ pc = "annual"
    /\ \E panel \in Panels :
          /\ zillow_panel' = WithHurricaneYear(panel)
          /\ merged' = PanelMerge(panel, annual_hurricane)
          /\ IF Len(PanelMerge(panel, annual_hurricane)) = Len(panel)
             THEN raised' = FALSE /\ pc' = "done" /\ UNCHANGED <<exit_code, logged>>
             ELSE /\ raised' = TRUE /\ pc' = "crashed"
                  /\ exit_code' = Some(1)
                  /\ logged' = logged \cup {[level |-> "traceback", about |-> "Row count mismatch"]}
    /\ UNCHANGED files
    /\ UNCHANGED <<fnVars, runVars, inVars, stVars, variant, text, track_records, landfall_names, storm_ids,
                   storm_min_dist, florida_storms, econ, hurricane_econ,
                   annual_hurricane>>

(***************************************************************************)
(* filter_florida_storms_60nm, then merge_hurricane_economic.              *)
(***************************************************************************)
Filter60FilterAndSave ==
    /\ variant = "filter60" /\ pc = "start"
    /\ IF INPUT_FILE \notin files
       THEN /\ logged' = logged \cup {[level |-> "error", about |-> INPUT_FILE]}
            /\ exit_code' = Some(1)
            /\ pc' = "exited"
            /\ UNCHANGED <<files, track_records, storm_ids, florida_storms>>
       ELSE /\ LET recs == Filter60ParseHurdat2(text)
                   ids == Filter60StormIds(recs, FL_PROXIMITY_NM)
                   final == Filter60FinalRecords(recs, ids)
               IN  /\ track_records' = recs
                   /\ storm_ids' = ids
                   /\ florida_storms' = Filter60Summary(final, ids)
            /\ files' = files \cup {OUTPUT_DETAIL, OUTPUT_SUMMARY}
            /\ exit_code' = Some(0)
            /\ pc' = "saved"
            /\ logged' = logged
    /\ UNCHANGED <<fnVars, runVars, inVars, stVars, variant, text, raised, landfall_names, storm_min_dist, econ,
                   hurricane_econ, annual_hurricane, zillow_panel, merged>>

\* merge_hurricane_economic.main: no output for an empty economic CSV;
\* int(data_year) is outside any try
MergeHurricaneEconomicMain ==
    /\ \/ variant = "filter60" /\ pc = "saved"
       \/ variant = "merge" /\ pc = "start"
    /\ \E rows \in CsvRowLists :
          LET track_data == IF TRACK_CSV \in files
                            THEN LoadTrackData(florida_storms) ELSE <<>>
              warned == logged \cup {[level |-> "warning", about |-> f] :
                                        f \in {TRACK_CSV, ECON_CSV} \ files}
          IN  /\ ECON_CSV \notin files => rows = <<>>
              /\ econ' = rows
              /\ IF rows = <<>>
                 THEN /\ logged' = warned \cup
                            {[level |-> "error", about |-> "No economic data to merge."]}
                      /\ hurricane_econ' = <<>>
                      /\ raised' = FALSE
                      /\ exit_code' = Some(0)
                      /\ pc' = "done"
                      /\ files' = files
                 ELSE IF \E i \in 1..Len(rows) : ~IntOk(rows[i].data_year)
                 THEN /\ logged' = warned \cup {[level |-> "traceback", about |-> "data_year"]}
                      /\ hurricane_econ' = <<>>
                      /\ raised' = TRUE
                      /\ exit_code' = Some(1)
                      /\ pc' = "crashed"
                      /\ files' = files
                 ELSE /\ logged' = warned
                      /\ hurricane_econ' = MergeEconRowsFrom(rows, track_data, 1)
                      /\ raised' = FALSE
                      /\ exit_code' = Some(0)
                      /\ pc' = "done"
                      /\ files' = files \cup {OUTPUT_CSV}
    /\ UNCHANGED <<fnVars, runVars, inVars, stVars, variant, text, track_records, landfall_names, storm_ids,
                   storm_min_dist, florida_storms, annual_hurricane, zillow_panel,
                   merged>>

(***************************************************************************)
(* download_hurricane_data.main up to filter_florida_storms: an exception  *)
(* of the parser, or the date column missing from an empty frame, ends it. *)
(***************************************************************************)
DownloadMain ==
    /\ variant = "download" /\ pc = "start"
    /\ LET r == DownloadParseHurdat2(text)
       IN  IF r.raised \/ r.records = <<>>
           THEN /\ raised' = TRUE /\ pc' = "crashed"
                /\ track_records' = <<>> /\ storm_ids' = {}
           ELSE /\ raised' = FALSE /\ pc' = "done"
                /\ track_records' = r.records
                /\ storm_ids' = DownloadFilteredIds(r.records, FL_PROXIMITY_NM)
    /\ UNCHANGED <<fnVars, runVars, inVars, stVars, ioVars, variant, text, landfall_names, storm_min_dist, florida_storms,
                   econ, hurricane_econ, annual_hurricane, zillow_panel, merged>>

Next ==
    \/ CapstoneParse
    \/ CapstoneFilter
    \/ CapstoneSummary
    \/ CapstoneEcon
    \/ CapstoneMerge
    \/ CapstoneAnnual
    \/ CapstonePanelMerge
    \/ Filter60FilterAndSave
    \/ MergeHurricaneEconomicMain
    \/ DownloadMain

Spec == Init /\ [][Next]_vars

(***************************************************************************)
(* The parsers alone, one call each on a text.                             *)
(***************************************************************************)
ParseUnchanged ==
    UNCHANGED <<fnVars, runVars, inVars, stVars, ioVars, variant, text, storm_ids, storm_min_dist, florida_storms, econ,
                hurricane_econ, annual_hurricane, zillow_panel, merged>>

Filter60Parse ==
    /\ variant = "filter60" /\ pc = "start"
    /\ track_records' = Filter60ParseHurdat2(text)
    /\ pc' = "parsed"
    /\ UNCHANGED <<raised, landfall_names>>
    /\ ParseUnchanged

DownloadParse ==
    /\ variant = "download" /\ pc = "start"
    /\ track_records' = DownloadParseHurdat2(text).records
    /\ raised' = DownloadParseHurdat2(text).raised
    /\ pc' = "parsed"
    /\ UNCHANGED landfall_names
    /\ ParseUnchanged

CleanParse ==
    /\ variant = "clean" /\ pc = "start"
    /\ track_records' = CleanParseHurdat2(text)
    /\ pc' = "parsed"
    /\ UNCHANGED <<raised, landfall_names>>
    /\ ParseUnchanged

LandfallParse ==
    /\ variant = "landfall" /\ pc = "start"
    /\ \E inside \in BOOLEAN :
          /\ landfall_names' = HurdatFloridaLandfalls(text, inside).names
          /\ raised' = HurdatFloridaLandfalls(text, inside).raised
    /\ pc' = "parsed"
    /\ UNCHANGED track_records
    /\ ParseUnchanged

ParseNext ==
    \/ CapstoneParse
    \/ Filter60Parse
    \/ DownloadParse
    \/ CleanParse
    \/ LandfallParse

SpecParse == ParseInit /\ [][ParseNext]_vars

(***************************************************************************)
(* Properties.                                                             *)
(***************************************************************************)
Id_AL092004 == <<"A", "L", "0", "9", "2", "0", "0", "4">>

\* the indexes of the rows of a frame that satisfy a test on the year and on
\* the distance of a track point
PointsOf(recs, sid) == {j \in 1..Len(recs) : recs[j].storm_id = sid}

\* C1: the merged panel has exactly the rows of the housing panel, in
\* order, each with its own housing columns: no housing row is duplicated
\* or dropped by the left join on the year.
C1_MergeKeepsPanelRows ==
    (variant = "capstone" /\ zillow_panel # <<>>) =>
        /\ Len(merged) = Len(zillow_panel)
        /\ \A i \in 1..Len(zillow_panel) :
              \A c \in DOMAIN zillow_panel[i] \ {"hurricane_year"} :
                  merged[i][c] = zillow_panel[i][c]

\* a panel of two rows or more is merged with an aggregate that was built
\* from two storms of one year, a year that rows of the panel have
C1_TwoStormsOneYearMerged ==
    /\ variant = "capstone" /\ pc = "done"
    /\ Len(zillow_panel) >= 2
    /\ Len(florida_storms) >= 2
    /\ florida_storms[1].year = florida_storms[2].year
    /\ \E i \in 1..Len(zillow_panel) :
          zillow_panel[i].hurricane_year = florida_storms[1].year
    /\ \E i \in 1..Len(zillow_panel) :
          zillow_panel[i].hurricane_year # florida_storms[1].year

\* C2: in the capstone merge and in merge_hurricane_economic.main, every
\* row of the merged hurricane-economic table belongs to an economic event
\* whose (normalized name, year) matches a storm summary; an event without
\* a match is absent, never a row with empty track fields.
C2_UnmatchedEventAbsent ==
    /\ variant = "capstone" =>
          \A k \in 1..Len(hurricane_econ) :
              /\ hurricane_econ[k].closest_distance_nm # None
              /\ \E j \in 1..Len(florida_storms) :
                    /\ florida_storms[j].storm_name.some
                    /\ Strip(Upper(florida_storms[j].storm_name.v))
                           = CapstoneCleanName(hurricane_econ[k].event_name)
                    /\ florida_storms[j].year = hurricane_econ[k].year
    /\ variant = "filter60" =>
          \A k \in 1..Len(hurricane_econ) :
              /\ hurricane_econ[k].closest_distance_nm # None
              /\ hurricane_econ[k].storm_id # <<>>
              /\ \E j \in 1..Len(florida_storms) :
                    /\ Upper(Strip(florida_storms[j].Storm))
                           = ExtractStormName(hurricane_econ[k].event_name)
                    /\ florida_storms[j].Year = hurricane_econ[k].year

\* C3: in the capstone loop, in filter_and_save and in
\* filter_florida_storms, a storm is in the in-scope set if and only if one
\* of its track points has both a year inside the year range and a distance
\* to the reference point within the threshold.
C3_InScopeIffInRangePointNear ==
    /\ (variant = "capstone" /\ pc \notin {"start", "parsed"}) =>
          storm_ids = {track_records[j].storm_id : j \in {i \in 1..Len(track_records) :
              /\ InYears(RecYear(track_records[i]), CAPSTONE_YEAR_MIN, YEAR_MAX)
              /\ DistToFlorida(track_records[i]) <= FL_PROXIMITY_NM * 1000}}
    /\ (variant = "filter60" /\ pc \in {"saved", "done"}) =>
          storm_ids = {track_records[j].storm_id : j \in {i \in 1..Len(track_records) :
              /\ InYears(track_records[i].year, YEAR_MIN, YEAR_MAX)
              /\ DistToFlorida(track_records[i]) <= FL_PROXIMITY_NM * 1000}}
    /\ (variant = "download" /\ pc = "done") =>
          storm_ids = {track_records[j].storm_id : j \in {i \in 1..Len(track_records) :
              /\ InYears(track_records[i].year, YEAR_MIN, YEAR_MAX)
              /\ DistToFlorida(track_records[i]) <= FL_PROXIMITY_NM * 1000}}

\* C4 as stated: the closest distance reported for an in-scope storm is the
\* minimum over all the track points of the storm, whatever their year.
C4_ClosestOverAllPoints ==
    /\ variant = "capstone" =>
          \A k \in 1..Len(florida_storms) :
              florida_storms[k].closest_distance_nm =
                  Round1(MinOf({DistToFlorida(track_records[j]) :
                      j \in PointsOf(track_records, florida_storms[k].storm_id)}))
    /\ (variant = "filter60" /\ pc \in {"saved", "done"}) =>
          \A k \in 1..Len(florida_storms) :
              florida_storms[k].Closest =
                  Round1(MinOf({DistToFlorida(track_records[j]) :
                      j \in PointsOf(track_records, florida_storms[k].ID)}))

\* C4: the closest distance reported for an in-scope storm is the minimum
\* over the track points of the storm whose year is inside the year range
\* of the filter; a point outside the range does not count, however close.
C4_ClosestOverInRangePoints ==
    /\ variant = "capstone" =>
          \A k \in 1..Len(florida_storms) :
              florida_storms[k].closest_distance_nm =
                  Round1(MinOf({DistToFlorida(track_records[j]) :
                      j \in {i \in PointsOf(track_records, florida_storms[k].storm_id) :
                          InYears(RecYear(track_records[i]), CAPSTONE_YEAR_MIN, YEAR_MAX)}}))
    /\ (variant = "filter60" /\ pc \in {"saved", "done"}) =>
          \A k \in 1..Len(florida_storms) :
              florida_storms[k].Closest =
                  Round1(MinOf({DistToFlorida(track_records[j]) :
                      j \in {i \in PointsOf(track_records, florida_storms[k].ID) :
                          InYears(track_records[i].year, YEAR_MIN, YEAR_MAX)}}))

\* a summarised storm has a point before the year range that is closer than
\* the distance its summary reports
C4_CloserPointOutOfRange ==
    /\ variant = "capstone"
    /\ \E k \in 1..Len(florida_storms) :
          \E j \in PointsOf(track_records, florida_storms[k].storm_id) :
              /\ RecYear(track_records[j]) < CAPSTONE_YEAR_MIN
              /\ Round1(DistToFlorida(track_records[j]))
                     < florida_storms[k].closest_distance_nm

\* C5 as stated: on the FRANCES text the parser yields three points of
\* AL092004, the filter puts AL092004 in scope and the summary reports
\* max_wind_kt 95 and year 2004.
C5_FrancesInScope ==
    (variant = "capstone" /\ text = ScenarioText /\ INPUT_FILE \in files
        /\ pc \notin {"start", "parsed", "filtered"}) =>
        /\ Len(track_records) = 3
        /\ \A i \in 1..Len(track_records) : track_records[i].storm_id = Some(Id_AL092004)
        /\ Some(Id_AL092004) \in storm_ids
        /\ \E k \in 1..Len(florida_storms) :
              /\ florida_storms[k].storm_id = Some(Id_AL092004)
              /\ florida_storms[k].max_wind_kt = Some(95)
              /\ florida_storms[k].year = 2004

\* C5: on the FRANCES text the parser yields three points of AL092004 with
\* winds 95, 90, 85; their distances to (27.5, -82.0) are 110.4, 61.2 and
\* 94.0 NM, none within 60 NM, so the in-scope set stays empty and the
\* summary has no row.
C5_FrancesOutOfScope ==
    (variant = "capstone" /\ text = ScenarioText /\ INPUT_FILE \in files
        /\ pc \notin {"start", "parsed", "filtered"}) =>
        /\ Len(track_records) = 3
        /\ \A i \in 1..Len(track_records) :
              /\ track_records[i].storm_id = Some(Id_AL092004)
              /\ RecYear(track_records[i]) = 2004
              /\ DistToFlorida(track_records[i]) > FL_PROXIMITY_NM * 1000
        /\ <<track_records[1].max_wind, track_records[2].max_wind,
             track_records[3].max_wind>> = <<Some(95), Some(90), Some(85)>>
        /\ <<Round1(DistToFlorida(track_records[1])), Round1(DistToFlorida(track_records[2])),
             Round1(DistToFlorida(track_records[3]))>> = <<1104, 612, 940>>
        /\ storm_ids = {}
        /\ florida_storms = <<>>

\* the filter and the summary step have run on the FRANCES text
C5_FrancesSummarised ==
    /\ variant = "capstone" /\ text = ScenarioText
    /\ pc = "crashed"
    /\ Len(track_records) = 3

\* C6: in the merged panel, a row whose year has no row in the annual
\* aggregate holds 0, not null, in every hurricane_* column of the
\* aggregate other than the join key.
C6_AbsentYearIsZero ==
    (variant = "capstone" /\ pc = "done") =>
        \A i \in 1..Len(merged) :
            (\A k \in 1..Len(annual_hurricane) :
                 annual_hurricane[k].hurricane_year # zillow_panel[i].hurricane_year) =>
                \A c \in (DOMAIN annual_hurricane[1]) \ {"hurricane_year"} :
                    c \in DOMAIN merged[i] /\ merged[i][c] = Some(0)

\* a merged row of a year without storms, the aggregate carrying the
\* economic totals too
C6_RowOfYearWithoutStorms ==
    /\ variant = "capstone" /\ pc = "done"
    /\ "hurricane_total_deaths" \in DOMAIN annual_hurricane[1]
    /\ \E i \in 1..Len(merged) :
          /\ \A k \in 1..Len(annual_hurricane) :
                annual_hurricane[k].hurricane_year # zillow_panel[i].hurricane_year
          /\ merged[i].hurricane_count = Some(0)
    /\ \E i \in 1..Len(merged) : merged[i].hurricane_count # Some(0)

\* C7: the annual aggregate, before and after the economic totals are
\* added, has one row for each year that is the summary year of an in-scope
\* storm, no row for another year, and no year twice.
C7_OneRowPerStormYear ==
    (variant = "capstone" /\ pc \in {"annual", "done"}) =>
        LET years == {florida_storms[j].year : j \in 1..Len(florida_storms)}
            base == AnnualSummary(florida_storms)
        IN  /\ {base[i].hurricane_year : i \in 1..Len(base)} = years
            /\ Len(base) = Cardinality(years)
            /\ {annual_hurricane[i].hurricane_year : i \in 1..Len(annual_hurricane)} = years
            /\ Len(annual_hurricane) = Cardinality(years)

\* two storms of one year and an economic match: one aggregate row
C7_TwoStormsOneRow ==
    /\ variant = "capstone" /\ pc = "annual"
    /\ Len(florida_storms) = 2
    /\ florida_storms[1].year = florida_storms[2].year
    /\ hurricane_econ # <<>>
    /\ Len(annual_hurricane) = 1

\* the lines of a text whose first field starts with a basin code
HeaderLike(t) == {i \in 1..Len(t) : CleanIsHeader(StripParts(Line(t[i])))}

\* C8: in the capstone, filter60 and clean parsers no emitted track point
\* has a missing or empty storm_id, and a point carries the storm_id and
\* the name of the nearest preceding header line, a header of fewer than
\* three fields included.  The texts are closed under prefixes and the
\* parsers read from left to right, so the point of the last line stands
\* for every point.
C8_PointsCarryNearestHeader ==
    (pc = "parsed" /\ variant \in {"capstone", "filter60", "clean"}) =>
        LET n == Len(track_records)
            id(r) == IF variant = "capstone" THEN r.storm_id ELSE Some(r.storm_id)
            name(r) == IF variant = "capstone" THEN r.storm_name
                       ELSE IF variant = "clean" THEN Some(r.name)
                       ELSE Some(r.storm_name)
        IN  /\ \A i \in 1..n : id(track_records[i]).some /\ id(track_records[i]).v # <<>>
            /\ (n > 0 /\ text[Len(text)] \in {"NR", "F2"}) =>
                  /\ HeaderLike(text) # {}
                  /\ LET h == StripParts(Line(text[MaxOf(HeaderLike(text))]))
                     IN  /\ id(track_records[n]).v = h[1]
                         /\ name(track_records[n]).some
                         /\ name(track_records[n]).v = h[2]

\* C9: the capstone and the clean parser return no track point, and raise
\* nothing, for a text without a header line.
C9_NoHeaderNoPoints ==
    (pc = "parsed" /\ variant \in {"capstone", "clean"} /\ HeaderLike(text) = {}) =>
        track_records = <<>> /\ ~raised

\* C10: no parser raises on a text, whatever malformed lines it holds, and
\* every well-formed data line that follows a well-formed header is parsed
\* by the parsers that return track points.
C10_BadLineNeverRaises ==
    (pc = "parsed" /\ variant \in {"capstone", "download", "filter60", "landfall"}) =>
        /\ ~raised
        /\ variant # "landfall" =>
              Len(track_records) >=
                  Cardinality({d \in 1..Len(text) :
                      /\ text[d] \in {"NR", "F2"}
                      /\ \E h \in 1..(d - 1) : text[h] \in {"HF", "HJ"}})

(***************************************************************************)
(* Single calls of the field parsers: the function of the call is variant, *)
(* its argument arg, its result out.                                       *)
(***************************************************************************)
\* numeric parts of coordinate fields, with their value in tenths
Coord_280 == [s |-> <<"2", "8", ".", "0">>, tenths |-> 280]
Coord_801 == [s |-> <<"8", "0", ".", "1">>, tenths |-> 801]
Coord_5 == [s |-> <<"0", ".", "5">>, tenths |-> 5]
CoordNumbers == {Coord_280, Coord_801, Coord_5}
Hemispheres == {"N", "S", "E", "W"}

\* a numeric part followed by a hemisphere letter
CoordStrings == {Append(n.s, h) : n \in CoordNumbers, h \in Hemispheres}

\* fields the coordinate conversions reject
BadCoordStrings == {<<>>, <<"N">>, <<"2", "x", ".", "5", "N">>}

CoordFns == {"capstone_lat", "capstone_lon", "filter60_lat", "filter60_lon",
             "clean_lat", "clean_lon"}

FnUnchanged ==
    UNCHANGED <<runVars, ioVars, inVars, stVars, variant, text, raised, track_records, landfall_names, storm_ids,
                storm_min_dist, florida_storms, econ, hurricane_econ,
                annual_hurricane, zillow_panel, merged, arg>>

\* capstone parse_hurdat2: the try block of lat; a failure skips the line
CallCapstoneLat ==
    /\ variant = "capstone_lat" /\ pc = "start"
    /\ out' = IF CoordOk(arg) THEN Some(CapstoneLat(arg)) ELSE None
    /\ pc' = "returned"
    /\ FnUnchanged

CallCapstoneLon ==
    /\ variant = "capstone_lon" /\ pc = "start"
    /\ out' = IF CoordOk(arg) THEN Some(CapstoneLon(arg)) ELSE None
    /\ pc' = "returned"
    /\ FnUnchanged

\* filter60 parse_hurdat2: lat and lon of the try block
CallFilter60Lat ==
    /\ variant = "filter60_lat" /\ pc = "start"
    /\ out' = IF CoordOk(arg) THEN Some(Filter60Lat(arg)) ELSE None
    /\ pc' = "returned"
    /\ FnUnchanged

CallFilter60Lon ==
    /\ variant = "filter60_lon" /\ pc = "start"
    /\ out' = IF CoordOk(arg) THEN Some(Filter60Lon(arg)) ELSE None
    /\ pc' = "returned"
    /\ FnUnchanged

\* clean_hurdat2._parse_lat and _parse_lon
CallCleanParseLat ==
    /\ variant = "clean_lat" /\ pc = "start"
    /\ out' = CleanParseLat(arg)
    /\ pc' = "returned"
    /\ FnUnchanged

CallCleanParseLon ==
    /\ variant = "clean_lon" /\ pc = "start"
    /\ out' = CleanParseLon(arg)
    /\ pc' = "returned"
    /\ FnUnchanged

\* the arguments a function is called with
FnArgs(fn) ==
    IF fn \in CoordFns THEN CoordStrings \cup BadCoordStrings
    ELSE {}

FnInit ==
    /\ variant \in CoordFns
    /\ arg \in FnArgs(variant)
    /\ text = <<>>
    /\ files = {}
    /\ Blank

FnNext ==
    \/ CallCapstoneLat
    \/ CallCapstoneLon
    \/ CallFilter60Lat
    \/ CallFilter60Lon
    \/ CallCleanParseLat
    \/ CallCleanParseLon

SpecFn == FnInit /\ [][FnNext]_vars

\* C11: a coordinate string made of a numeric part and a hemisphere letter
\* parses to the numeric part, negated if and only if the letter is S or W,
\* as latitude and as longitude in the capstone, filter60 and clean parser.
C11_NegatedIffSouthOrWest ==
    (pc = "returned" /\ variant \in CoordFns /\ arg \in CoordStrings) =>
        \E n \in CoordNumbers :
            /\ DropLast(arg) = n.s
            /\ out = Some(IF arg[Len(arg)] \in {"S", "W"} THEN 0 - n.tenths ELSE n.tenths)

(***************************************************************************)
(* The parser, the filter and the storm summary on the points of one       *)
(* storm.                                                                  *)
(***************************************************************************)
\* most points of the storm
MaxPoints == 3

PointLines == {"NR", "Z0", "F2", "OLD"}
SummaryTexts == {<<"HF">> \o pts : pts \in SeqsUpTo(PointLines, MaxPoints)}

SummaryInit ==
    /\ variant \in {"capstone", "filter60"}
    /\ text \in SummaryTexts
    /\ files = {INPUT_FILE}
    /\ arg = <<>>
    /\ Blank

SummaryNext ==
    \/ CapstoneParse
    \/ CapstoneFilter
    \/ CapstoneSummary
    \/ Filter60FilterAndSave

SpecSummary == SummaryInit /\ [][SummaryNext]_vars

\* the wind and the pressure field of the point lines as written
FieldWind(n) ==
    CASE n = "NR" -> Some(100) [] n = "Z0" -> Some(0) [] n = "F2" -> Some(90)
      [] n = "OLD" -> None
FieldPressure(n) ==
    CASE n = "NR" -> Some(950) [] n = "Z0" -> None [] n = "F2" -> None
      [] n = "OLD" -> Some(1000)

\* C12: a wind or pressure field of -999, -99 or blank is parsed to the
\* absent value and every other integer, 0 included, to itself; the maximum
\* wind and the minimum pressure of a storm summary range over every
\* recorded value of the summarised points, 0 included.
C12_SentinelAbsentZeroRecorded ==
    (variant \in {"capstone", "filter60"} /\ pc # "start") =>
        LET summarised == {k \in 1..Len(track_records) :
                variant = "filter60" => InYears(track_records[k].year, YEAR_MIN, YEAR_MAX)}
            winds == {FieldWind(text[k + 1]).v : k \in {j \in summarised : FieldWind(text[j + 1]).some}}
            pressures == {FieldPressure(text[k + 1]).v :
                             k \in {j \in summarised : FieldPressure(text[j + 1]).some}}
        IN  /\ Len(track_records) = Len(text) - 1
            /\ \A k \in 1..Len(track_records) :
                  /\ track_records[k].max_wind = FieldWind(text[k + 1])
                  /\ track_records[k].min_pressure = FieldPressure(text[k + 1])
            /\ \A k \in 1..Len(florida_storms) :
                  IF variant = "capstone"
                  THEN /\ florida_storms[k].max_wind_kt = MaxOrNone(winds)
                       /\ florida_storms[k].min_pressure_mb = MinOrNone(pressures)
                  ELSE /\ florida_storms[k].MaxWind = MaxOrNone(winds)
                       /\ florida_storms[k].MinPressure = MinOrNone(pressures)


\* ---------------------------------------------------------------------------
\* The pipeline run: run_pipeline.main and pipeline_runner.run_all start the
\* stage scripts fetch_all.py, clean_all.py and build_master.py one after the
\* other; each stage script runs its own child scripts in a loop.

PIPELINE_STEPS == <<"fetch", "clean", "build">>

FETCH_SCRIPTS ==
    << "fetch_zillow_zhvi_metro.py", "fetch_zillow_zhvi_state.py",
       "fetch_zillow_zhvf_growth.py", "fetch_zillow_zori.py",
       "fetch_zillow_zorf_growth.py", "fetch_zillow_inventory.py",
       "fetch_zillow_sales_count.py", "fetch_zillow_days_on_market.py",
       "fetch_zillow_market_temp.py", "fetch_zillow_new_construction.py",
       "fetch_zillow_income_needed.py", "fetch_noaa_hurdat2.py",
       "fetch_noaa_economic_impacts.py" >>

CLEAN_SCRIPTS == <<"clean_zillow.py", "clean_hurdat2.py", "clean_economic.py">>

MERGE_SCRIPTS == <<"merge_hurricane_economic.py", "merge_zillow_metrics.py">>

StageScripts(s) ==
    CASE s = "fetch" -> FETCH_SCRIPTS
      [] s = "clean" -> CLEAN_SCRIPTS
      [] s = "build" -> MERGE_SCRIPTS

\* At most this many child scripts fail in one run.
MaxFailures == 2

ChildOutcomes == {"ok", "nonzero", "timeout", "exception"}

RunUnchanged ==
    UNCHANGED <<fnVars, ioVars, inVars, stVars, variant, text, raised, track_records, landfall_names, storm_ids,
                storm_min_dist, florida_storms, econ, hurricane_econ,
                annual_hurricane, zillow_panel, merged>>

\* run_step of either runner, up to the start of the stage process: a stage
\* script that is not there ends the run with an error (FileNotFoundError in
\* run_pipeline, a non-zero return code of the interpreter in run_all).
RunStep ==
    /\ variant \in {"run_pipeline", "run_all"}
    /\ pc = "step"
    /\ \E exists \in BOOLEAN :
        IF exists
        THEN /\ started' = Append(started, PIPELINE_STEPS[stage])
             /\ child' = 1
             /\ pc' = "in_stage"
             /\ top' = top
        ELSE /\ top' = "error"
             /\ pc' = "done"
             /\ UNCHANGED <<started, child>>
    /\ UNCHANGED <<failed, stage>>
    /\ RunUnchanged

\* One turn of the loop of a stage script over its child scripts: the child
\* returns 0, returns non-zero, times out or cannot be run; every outcome but
\* the first is logged and appended to results["failed"], and the loop goes on.
RunChildScript(s) ==
    /\ child <= Len(StageScripts(s))
    /\ \E o \in ChildOutcomes :
        /\ o # "ok" => Cardinality(failed) < MaxFailures
        /\ failed' = IF o = "ok" THEN failed ELSE failed \cup {StageScripts(s)[child]}
    /\ child' = child + 1
    /\ UNCHANGED <<pc, started, top, stage>>
    /\ RunUnchanged

FetchAllMain ==
    /\ pc = "in_stage"
    /\ PIPELINE_STEPS[stage] = "fetch"
    /\ RunChildScript("fetch")

CleanAllMain ==
    /\ pc = "in_stage"
    /\ PIPELINE_STEPS[stage] = "clean"
    /\ RunChildScript("clean")

RunMergeScripts ==
    /\ pc = "in_stage"
    /\ PIPELINE_STEPS[stage] = "build"
    /\ RunChildScript("build")

\* The stage script reaches the end of its main: it exits with code 0 whatever
\* its children did, and the runner goes on to the next stage.
RunStepReturns ==
    /\ pc = "in_stage"
    /\ child > Len(StageScripts(PIPELINE_STEPS[stage]))
    /\ IF stage = Len(PIPELINE_STEPS)
       THEN /\ top' = "complete"
            /\ pc' = "done"
            /\ stage' = stage
       ELSE /\ top' = top
            /\ pc' = "step"
            /\ stage' = stage + 1
    /\ UNCHANGED <<started, failed, child>>
    /\ RunUnchanged

\* The stage process itself ends abnormally (an exception that its main does
\* not catch; under run_all also the 600 s timeout of the stage): run_step
\* raises SystemExit, resp. returns status "error" and run_all breaks.
RunStepFails ==
    /\ pc = "in_stage"
    /\ top' = "error"
    /\ pc' = "done"
    /\ UNCHANGED <<started, failed, stage, child>>
    /\ RunUnchanged

RunInit ==
    /\ variant \in {"run_pipeline", "run_all"}
    /\ text = <<>>
    /\ arg = <<>>
    /\ raised = FALSE
    /\ track_records = <<>>
    /\ landfall_names = {}
    /\ storm_ids = {}
    /\ storm_min_dist = <<>>
    /\ florida_storms = <<>>
    /\ econ = <<>>
    /\ hurricane_econ = <<>>
    /\ annual_hurricane = <<>>
    /\ zillow_panel = <<>>
    /\ merged = <<>>
    /\ out = None
    /\ pc = "step"
    /\ started = <<>>
    /\ failed = {}
    /\ top = "running"
    /\ stage = 1
    /\ child = 0
    /\ files = {}
    /\ exit_code = None
    /\ logged = {}
    /\ noaa_data = <<>>
    /\ status_file = [exists |-> FALSE, torn |-> FALSE, v |-> <<>>]
    /\ calls = <<>>

RunNext ==
    \/ RunStep
    \/ FetchAllMain
    \/ CleanAllMain
    \/ RunMergeScripts
    \/ RunStepReturns
    \/ RunStepFails

SpecRun == RunInit /\ [][RunNext]_vars

StageIndex(s) == CHOOSE i \in DOMAIN PIPELINE_STEPS : PIPELINE_STEPS[i] = s

StageOf(script) ==
    CHOOSE s \in {PIPELINE_STEPS[i] : i \in DOMAIN PIPELINE_STEPS} :
        \E k \in DOMAIN StageScripts(s) : StageScripts(s)[k] = script

\* C14: in a full run, once a script of some stage has failed, no later stage
\* is started and the run does not end as complete; once the run has ended
\* with an error, only the stages up to the failing one were started.
C14_FailureHaltsLaterStages ==
    /\ \A f \in failed :
        /\ \A i \in DOMAIN started : StageIndex(started[i]) <= StageIndex(StageOf(f))
        /\ top # "complete"
    /\ top = "error" => Len(started) <= stage


\* ---------------------------------------------------------------------------
\* Missing inputs and empty results of the scripts.

Named(f) == \E m \in logged : m.about = f

Failed == exit_code.some /\ exit_code.v # 0

\* C15: a stage whose required source file is absent (the raw HURDAT2 text for
\* the storm filter and for Section 4a, the track summary CSV or the economic
\* CSV for the hurricane-economic merge) ends with a non-zero exit code and a
\* message that names the missing file, and writes none of its output files.
C15_MissingInputStopsStage ==
    /\ (variant = "filter60" /\ pc # "start" /\ INPUT_FILE \notin files) =>
            /\ Failed
            /\ Named(INPUT_FILE)
            /\ files \cap {OUTPUT_DETAIL, OUTPUT_SUMMARY} = {}
    /\ (variant = "capstone" /\ pc # "start" /\ INPUT_FILE \notin files) =>
            /\ Failed
            /\ Named(INPUT_FILE)
            /\ files \cap {CAPSTONE_STORMS_CSV, OUTPUT_CSV} = {}
    /\ (variant \in {"filter60", "merge"} /\ pc \in {"done", "crashed"}) =>
            \A f \in {TRACK_CSV, ECON_CSV} \ files :
                /\ Failed
                /\ Named(f)
                /\ OUTPUT_CSV \notin files


\* C16: with zero in-scope storms, zero matched economic events or zero
\* economic rows the stage still completes and writes its output file (with
\* zero data rows); the file is never omitted and the run does not abort.
C16_EmptyResultStillWritten ==
    /\ (variant = "capstone" /\ INPUT_FILE \in files /\ storm_ids = {}
            /\ pc \notin {"start", "parsed", "filtered"}) =>
            /\ ~raised
            /\ CAPSTONE_STORMS_CSV \in files
            /\ florida_storms = <<>>
    /\ (variant = "filter60" /\ storm_ids = {} /\ pc \in {"saved", "done", "crashed"}) =>
            /\ {OUTPUT_DETAIL, OUTPUT_SUMMARY} \subseteq files
            /\ florida_storms = <<>>
    /\ (variant = "capstone" /\ hurricane_econ = <<>>
            /\ pc \in {"econ_merged", "annual", "done"}) =>
            OUTPUT_CSV \in files
    /\ (variant \in {"filter60", "merge"} /\ ECON_CSV \in files /\ econ = <<>>
            /\ pc \in {"done", "crashed"}) =>
            /\ ~raised
            /\ OUTPUT_CSV \in files
            /\ hurricane_econ = <<>>


\* ---------------------------------------------------------------------------
\* Malformed economic records.

NumericText(s) == Len(s) > 0 /\ \A i \in 1..Len(s) : s[i] \in Digits

EventWellFormed(e) ==
    e.adjCost.num /\ Len(e.begDate) >= 4 /\ NumericText(SubSeq(e.begDate, 1, 4))

CsvRowWellFormed(r) == NumericText(r.data_year)

\* C17: a malformed economic record (non-numeric or missing data_year,
\* non-numeric cost, non-numeric begin date) never aborts the run and is left
\* out; every other record of the input is processed and merged as if the
\* malformed one were not there.
C17_MalformedEconRecordSkipped ==
    /\ (variant = "capstone" /\ \E i \in 1..Len(noaa_data) : ~EventWellFormed(noaa_data[i])) =>
            /\ ~raised
            /\ pc \in {"econ_merged", "annual", "done"} =>
                   hurricane_econ =
                       CapstoneMergeEcon(
                           CapstoneEconEvents(SelectSeq(noaa_data, EventWellFormed)),
                           florida_storms)
    /\ (variant \in {"filter60", "merge"} /\ pc \in {"done", "crashed"}
            /\ \E i \in 1..Len(econ) : ~CsvRowWellFormed(econ[i])) =>
            /\ ~raised
            /\ hurricane_econ =
                   MergeEconRowsFrom(SelectSeq(econ, CsvRowWellFormed),
                       IF TRACK_CSV \in files THEN LoadTrackData(florida_storms) ELSE <<>>, 1)


\* ---------------------------------------------------------------------------
\* The proximity filters applied to one text with two thresholds.

\* points of the first storm of a text
MaxStormPoints == 2

MonoLines == {"NR", "F2", "OLD"}

\* FRANCES with up to MaxStormPoints points, then JEANNE with at most one
MonoTexts ==
    {<<"HF">> \o p \o <<"HJ">> \o q :
        p \in SeqsUpTo(MonoLines, MaxStormPoints), q \in SeqsUpTo(MonoLines, 1)}

\* thresholds in NM
Thresholds == {20, 60, 120}

ThresholdPairs == {tt \in Thresholds \X Thresholds : tt[1] <= tt[2]}

\* Section 4b proximity loop, run with each threshold of arg
CallCapstoneProximity ==
    /\ variant = "capstone_proximity" /\ pc = "start"
    /\ LET recs == CapstoneParseHurdat2(text)
       IN  out' = Some(<<CapstoneProximity(recs, arg[1]).ids,
                         CapstoneProximity(recs, arg[2]).ids>>)
    /\ pc' = "returned"
    /\ FnUnchanged

\* filter_florida_storms(df, max_distance_nm), run with each threshold of arg
CallFilterFloridaStorms ==
    /\ variant = "filter_florida_storms" /\ pc = "start"
    /\ LET recs == DownloadParseHurdat2(text).records
       IN  out' = Some(<<DownloadFilteredIds(recs, arg[1]),
                         DownloadFilteredIds(recs, arg[2])>>)
    /\ pc' = "returned"
    /\ FnUnchanged

MonoInit ==
    /\ variant \in {"capstone_proximity", "filter_florida_storms"}
    /\ text \in MonoTexts
    /\ arg \in ThresholdPairs
    /\ files = {INPUT_FILE}
    /\ Blank

MonoNext == CallCapstoneProximity \/ CallFilterFloridaStorms

SpecMono == MonoInit /\ [][MonoNext]_vars

\* C18: for thresholds t1 <= t2 the in-scope storm set computed with t1 is a
\* subset of the in-scope storm set computed with t2, for the proximity loop
\* of the capstone script and for filter_florida_storms.
C18_LargerThresholdKeepsStorms ==
    (pc = "returned" /\ variant \in {"capstone_proximity", "filter_florida_storms"}) =>
        out.v[1] \subseteq out.v[2]

\* a storm is in scope with both thresholds and another only with the larger
C18_LargerThresholdAddsStorm ==
    /\ pc = "returned" /\ variant \in {"capstone_proximity", "filter_florida_storms"}
    /\ arg[1] < arg[2]
    /\ out.v[1] # {}
    /\ out.v[1] # out.v[2]


\* ---------------------------------------------------------------------------
\* clean_economic._parse_dollar.  A result is [raised, some, v, unit]: the
\* float v / 1000 * 10^unit, NaN when some is FALSE, or an exception.

NumChars == Digits \cup {"."}

\* _DOLLAR_STRIP.sub("", s)
DollarStrip(s) == SelectSeq(s, LAMBDA c : c \notin {"$", ","})

\* the matches of ([\d.]+)\s*word, ignoring case: [from, to] is group 1
UnitMatches(s, word) ==
    {m \in [from : 1..Len(s), to : 1..Len(s)] :
        /\ m.from <= m.to
        /\ \A k \in m.from..m.to : s[k] \in NumChars
        /\ \E sp \in 0..(Len(s) - m.to) :
              /\ \A k \in (m.to + 1)..(m.to + sp) : s[k] = " "
              /\ m.to + sp + Len(word) <= Len(s)
              /\ Upper(SubSeq(s, m.to + sp + 1, m.to + sp + Len(word))) = Upper(word)}

\* pattern.search(s): the leftmost match, its group as long as it can be
UnitSearch(s, word) ==
    LET ms == UnitMatches(s, word)
    IN  IF ms = {} THEN None
        ELSE LET first == CHOOSE m \in ms : \A o \in ms : m.from <= o.from
                 best == CHOOSE m \in ms :
                             /\ m.from = first.from
                             /\ \A o \in ms : o.from = first.from => o.to <= m.to
             IN  Some(SubSeq(s, best.from, best.to))

\* float(s) of a string of an optional sign, digits and points: ValueError
\* unless there is a digit and at most one point
DollarFloatBody(s) ==
    LET t == Strip(s)
    IN  IF Len(t) > 0 /\ t[1] \in {"-", "+"} THEN Tail(t) ELSE t

DollarFloatOk(s) ==
    LET b == DollarFloatBody(s)
    IN  /\ \A i \in 1..Len(b) : b[i] \in NumChars
        /\ \E i \in 1..Len(b) : b[i] \in Digits
        /\ Cardinality({i \in 1..Len(b) : b[i] = "."}) <= 1

\* the value of float(s) in thousandths
DollarFloatMilli(s) ==
    LET b == DollarFloatBody(s)
        t == Strip(s)
        dot == IF \E i \in 1..Len(b) : b[i] = "."
               THEN CHOOSE i \in 1..Len(b) : b[i] = "." ELSE Len(b) + 1
        whole == SubSeq(b, 1, dot - 1)
        frac == SubSeq(b \o <<"0", "0", "0", "0">>, dot + 1, dot + 3)
        v == DigitsVal(whole) * 1000 + DigitsVal(frac)
    IN  IF Len(t) > 0 /\ t[1] = "-" THEN 0 - v ELSE v

DollarNaN == [raised |-> FALSE, some |-> FALSE, v |-> 0, unit |-> 0]
DollarRaises == [raised |-> TRUE, some |-> FALSE, v |-> 0, unit |-> 0]
DollarValue(milli, unit) == [raised |-> FALSE, some |-> TRUE, v |-> milli, unit |-> unit]

Word_billion == <<"b", "i", "l", "l", "i", "o", "n">>
Word_million == <<"m", "i", "l", "l", "i", "o", "n">>

\* float(m.group(1)) * 10^unit
DollarTimes(group, unit) ==
    IF DollarFloatOk(group) THEN DollarValue(DollarFloatMilli(group), unit)
    ELSE DollarRaises

ParseDollar(value) ==
    LET s == Strip(value)
        b == UnitSearch(s, Word_billion)
        m == UnitSearch(s, Word_million)
        cleaned == DollarStrip(s)
    IN  IF s = <<>> THEN DollarNaN
        ELSE IF b.some THEN DollarTimes(b.v, 9)
        ELSE IF m.some THEN DollarTimes(m.v, 6)
        ELSE IF DollarFloatOk(cleaned) THEN DollarValue(DollarFloatMilli(cleaned), 0)
        ELSE DollarNaN

\* dollar strings: an optional $, an amount, an optional blank, a word
Amount_1_5 == [s |-> <<"1", ".", "5">>, milli |-> 1500]
Amount_200 == [s |-> <<"2", "0", "0">>, milli |-> 200000]
Amount_45000 == [s |-> <<"4", "5", ",", "0", "0", "0">>, milli |-> 45000000]
Amount_1500 == [s |-> <<"1", ",", "5", "0", "0">>, milli |-> 1500000]
Amount_0_25 == [s |-> <<".", "2", "5">>, milli |-> 250]
Amounts == {Amount_1_5, Amount_200, Amount_45000, Amount_1500, Amount_0_25}

\* texts that hold no number
NoAmounts == {<<>>, <<".">>, <<"1", ".", "2", ".", "3">>, <<"n", "/", "a">>}

Unit_Billion == [s |-> <<"B", "i", "l", "l", "i", "o", "n">>, unit |-> 9]
Unit_billion == [s |-> Word_billion, unit |-> 9]
Unit_BILLION == [s |-> Upper(Word_billion), unit |-> 9]
Unit_Million == [s |-> <<"M", "i", "l", "l", "i", "o", "n">>, unit |-> 6]
Unit_million == [s |-> Word_million, unit |-> 6]
Unit_none == [s |-> <<>>, unit |-> 0]
Units == {Unit_Billion, Unit_billion, Unit_BILLION, Unit_Million, Unit_million, Unit_none}

DollarSigns == {<<>>, <<"$">>}
Blanks == {<<>>, <<" ">>}

DollarStrings ==
    {d \o a \o sp \o u.s :
        d \in DollarSigns, a \in {x.s : x \in Amounts} \cup NoAmounts, sp \in Blanks, u \in Units}

CallParseDollar ==
    /\ variant = "parse_dollar" /\ pc = "start"
    /\ out' = ParseDollar(arg)
    /\ raised' = ParseDollar(arg).raised
    /\ pc' = "returned"
    /\ UNCHANGED <<runVars, ioVars, inVars, stVars, variant, text, track_records, landfall_names,
                   storm_ids, storm_min_dist, florida_storms, econ, hurricane_econ,
                   annual_hurricane, zillow_panel, merged, arg>>

DollarInit ==
    /\ variant = "parse_dollar"
    /\ arg \in DollarStrings
    /\ text = <<>>
    /\ files = {}
    /\ Blank

DollarNext == CallParseDollar

SpecDollar == DollarInit /\ [][DollarNext]_vars

\* C19: _parse_dollar never raises; an amount (with thousands separators and
\* at most one decimal point) followed by billion or million in any letter
\* case gives amount x 1e9 or amount x 1e6; an amount alone gives the amount;
\* a text that holds no number gives null.
C19_ParseDollarTotalAndUnitAware ==
    (pc = "returned" /\ variant = "parse_dollar") =>
        /\ ~out.raised
        /\ \A d \in DollarSigns, a \in Amounts, sp \in Blanks, u \in Units :
              arg = d \o a.s \o sp \o u.s => out = DollarValue(a.milli, u.unit)
        /\ \A d \in DollarSigns, a \in NoAmounts, sp \in Blanks, u \in Units :
              arg = d \o a \o sp \o u.s => ~out.some


\* ---------------------------------------------------------------------------
\* The join key derived from an event name.

\* index of the first occurrence of sub in s, 0 if none
FindAt(s, sub) ==
    LET at == {i \in 1..(Len(s) - Len(sub) + 1) : SubSeq(s, i, i + Len(sub) - 1) = sub}
    IN  IF at = {} THEN 0 ELSE CHOOSE i \in at : \A j \in at : i <= j

\* s.replace(sub, "", 1)
ReplaceFirst(s, sub) ==
    LET i == FindAt(s, sub)
    IN  IF i = 0 THEN s ELSE SubSeq(s, 1, i - 1) \o SubSeq(s, i + Len(sub), Len(s))

\* iter_filtered_rows: the storm name of a row, None for a row that is passed over
IterFilteredStormName(event_name) ==
    IF ~(StartsWith(event_name, Prefix_Hurricane) \/ StartsWith(event_name, Prefix_TropicalStorm))
    THEN None
    ELSE Some(Upper(Strip(ReplaceFirst(ReplaceFirst(event_name, Prefix_Hurricane),
                                       Prefix_TropicalStorm))))

\* event names: a prefix, a storm name, a parenthetical
NamePrefixes == {<<>>, Prefix_Hurricane, Prefix_TropicalStorm, Prefix_TropicalCyclone}

Storm_Frances == <<"F", "r", "a", "n", "c", "e", "s">>
Storm_Jeanne == <<"J", "e", "a", "n", "n", "e">>
Storm_Katrina == <<"K", "a", "t", "r", "i", "n", "a">>
Storm_Ivan == <<"I", "v", "a", "n">>
StormNames == {Storm_Frances, Storm_Jeanne, Storm_Katrina, Storm_Ivan}

Paren_September2004 ==
    <<" ", "(", "S", "e", "p", "t", "e", "m", "b", "e", "r", " ", "2", "0", "0", "4", ")">>
Paren_2005 == <<" ", "(", "2", "0", "0", "5", ")">>
Parentheticals == {<<>>, Paren_September2004, Paren_2005}

EventNames == {p \o n \o d : p \in NamePrefixes, n \in StormNames, d \in Parentheticals}

NameFns == {"capstone_clean_name", "extract_storm_name", "iter_filtered_rows"}

\* Section 4c clean_name, and the merge key of Section 4d made from it
CallCapstoneCleanName ==
    /\ variant = "capstone_clean_name" /\ pc = "start"
    /\ out' = EconMergeName([storm_name_clean |-> CapstoneCleanName(arg)])
    /\ pc' = "returned"
    /\ FnUnchanged

CallExtractStormName ==
    /\ variant = "extract_storm_name" /\ pc = "start"
    /\ out' = Some(ExtractStormName(arg))
    /\ pc' = "returned"
    /\ FnUnchanged

CallIterFilteredRows ==
    /\ variant = "iter_filtered_rows" /\ pc = "start"
    /\ out' = IterFilteredStormName(arg)
    /\ pc' = "returned"
    /\ FnUnchanged

NameInit ==
    /\ variant \in NameFns
    /\ arg \in EventNames
    /\ text = <<>>
    /\ files = {}
    /\ Blank

NameNext == CallCapstoneCleanName \/ CallExtractStormName \/ CallIterFilteredRows

SpecName == NameInit /\ [][NameNext]_vars

\* C20: the join key of an event name is the name without its recognized
\* prefix (Hurricane, Tropical Storm, Tropical Cyclone) and without its
\* trailing parenthetical, in upper case and trimmed, in Section 4c of the
\* capstone script, in extract_storm_name and in iter_filtered_rows alike.
C20_JoinKeyIsBareUpperName ==
    (pc = "returned" /\ variant \in NameFns) =>
        \A p \in NamePrefixes, n \in StormNames, d \in Parentheticals :
            arg = p \o n \o d => out = Some(Upper(n))

\* ---------------------------------------------------------------------------
\* The storm summary: year, aggregates, order.

\* the point at j is not later than the point at k
NotLater(recs, j, k) ==
    \/ IntVal(recs[j].date) < IntVal(recs[k].date)
    \/ /\ IntVal(recs[j].date) = IntVal(recs[k].date)
       /\ IntVal(recs[j].time) <= IntVal(recs[k].time)

\* the year of the earliest point of storm sid
EarliestYear(recs, sid) ==
    LET first == CHOOSE j \in PointsOf(recs, sid) :
                     \A k \in PointsOf(recs, sid) : NotLater(recs, j, k)
    IN  IntVal(SubSeq(recs[first].date, 1, 4))

\* C21: the year of a storm summary is the year of the storm's earliest
\* track point (by date and time), whatever the order of the points in the
\* file, in the capstone summary and in the filter60 summary.
C21_YearOfEarliestPoint ==
    /\ (variant = "capstone" /\ pc = "summarised") =>
            \A k \in 1..Len(florida_storms) :
                florida_storms[k].year =
                    EarliestYear(track_records, florida_storms[k].storm_id)
    /\ (variant = "filter60" /\ pc = "saved") =>
            \A k \in 1..Len(florida_storms) :
                florida_storms[k].Year =
                    EarliestYear(track_records, florida_storms[k].ID)

\* the recorded values of field f over every track point of storm sid
RecordedOf(recs, sid, f) ==
    {recs[j][f].v : j \in {k \in PointsOf(recs, sid) : recs[k][f].some}}

\* C22: the maximum wind and the minimum pressure of a storm summary are
\* taken over all track points of the storm that carry a recorded value,
\* whatever their year, and are absent exactly when no point of the storm
\* has one.
C22_AggregatesOverAllPoints ==
    /\ (variant = "capstone" /\ pc = "summarised") =>
            \A k \in 1..Len(florida_storms) :
                LET sid == florida_storms[k].storm_id
                IN  /\ florida_storms[k].max_wind_kt =
                            MaxOrNone(RecordedOf(track_records, sid, "max_wind"))
                    /\ florida_storms[k].min_pressure_mb =
                            MinOrNone(RecordedOf(track_records, sid, "min_pressure"))
    /\ (variant = "filter60" /\ pc = "saved") =>
            \A k \in 1..Len(florida_storms) :
                LET sid == florida_storms[k].ID
                IN  /\ florida_storms[k].MaxWind =
                            MaxOrNone(RecordedOf(track_records, sid, "max_wind"))
                    /\ florida_storms[k].MinPressure =
                            MinOrNone(RecordedOf(track_records, sid, "min_pressure"))

\* the storm summaries of year y
SummariesOf(storms, y) == {j \in 1..Len(storms) : storms[j].year = y}

\* C23: every row of the annual aggregate carries, for its year, the number
\* of storm summaries of that year, the maximum of their recorded maximum
\* winds and the minimum of their recorded minimum pressures (absent when
\* none of them has one), and the minimum of their closest distances.
C23_AnnualValuesOverStormsOfYear ==
    (variant = "capstone" /\ pc \in {"annual", "done"}) =>
        \A i \in 1..Len(annual_hurricane) :
            LET row == annual_hurricane[i]
                S == SummariesOf(florida_storms, row.hurricane_year)
                winds == {florida_storms[j].max_wind_kt.v :
                             j \in {k \in S : florida_storms[k].max_wind_kt.some}}
                pressures == {florida_storms[j].min_pressure_mb.v :
                                 j \in {k \in S : florida_storms[k].min_pressure_mb.some}}
            IN  /\ row.hurricane_count = Some(Cardinality(S))
                /\ row.hurricane_max_wind_kt =
                       (IF winds = {} THEN None ELSE Some(MaxOf(winds)))
                /\ row.hurricane_min_pressure_mb =
                       (IF pressures = {} THEN None ELSE Some(MinOf(pressures)))
                /\ row.hurricane_closest_nm.some
                /\ \A j \in S : row.hurricane_closest_nm.v <= florida_storms[j].closest_distance_nm
                /\ \E j \in S : row.hurricane_closest_nm.v = florida_storms[j].closest_distance_nm

\* ---------------------------------------------------------------------------
\* Two storms in one file: the order of the summary rows.
MaxOrderPoints == 1

OrderHeaders == {"HF", "HJ", "HA"}
OrderPoints == {"NR", "Z0", "OLD"}
OrderTexts ==
    {<<h1>> \o p \o <<h2>> \o q :
        h1 \in OrderHeaders, h2 \in OrderHeaders,
        p \in SeqsUpTo(OrderPoints, MaxOrderPoints),
        q \in SeqsUpTo(OrderPoints, MaxOrderPoints)}

OrderInit ==
    /\ variant \in {"capstone", "filter60"}
    /\ text \in OrderTexts
    /\ files = {INPUT_FILE}
    /\ arg = <<>>
    /\ Blank

OrderNext ==
    \/ CapstoneParse
    \/ CapstoneFilter
    \/ CapstoneSummary
    \/ Filter60FilterAndSave

SpecOrder == OrderInit /\ [][OrderNext]_vars

\* C24: the rows of a storm summary are in ascending order of the year and,
\* within a year, of the storm name, in the capstone summary frame and in
\* the summary written by filter60.
C24_SummarySortedByYearThenName ==
    /\ (variant = "capstone" /\ pc = "summarised") =>
            \A i, j \in 1..Len(florida_storms) : i < j =>
                \/ florida_storms[i].year < florida_storms[j].year
                \/ /\ florida_storms[i].year = florida_storms[j].year
                   /\ StrLeq(florida_storms[i].storm_name.v, florida_storms[j].storm_name.v)
    /\ (variant = "filter60" /\ pc = "saved") =>
            \A i, j \in 1..Len(florida_storms) : i < j =>
                \/ florida_storms[i].Year < florida_storms[j].Year
                \/ /\ florida_storms[i].Year = florida_storms[j].Year
                   /\ StrLeq(florida_storms[i].Storm, florida_storms[j].Storm)

\* ---------------------------------------------------------------------------
\* Two storms of one name and year, and the economic merge.
MaxDupPoints == 1

DupHeaders == {"HF", "HG", "HJ"}
DupPoints == {"NR", "Z0"}
DupTexts ==
    {<<h1>> \o p \o <<h2>> \o q :
        h1 \in DupHeaders, h2 \in DupHeaders,
        p \in SeqsUpTo(DupPoints, MaxDupPoints),
        q \in SeqsUpTo(DupPoints, MaxDupPoints)}

DupInit ==
    /\ variant \in {"capstone", "filter60"}
    /\ text \in DupTexts
    /\ files \in InputFiles(variant, text)
    /\ arg = <<>>
    /\ Blank

DupNext ==
    \/ CapstoneParse
    \/ CapstoneFilter
    \/ CapstoneSummary
    \/ CapstoneEcon
    \/ CapstoneMerge
    \/ CapstoneAnnual
    \/ CapstonePanelMerge
    \/ Filter60FilterAndSave
    \/ MergeHurricaneEconomicMain

SpecDup == DupInit /\ [][DupNext]_vars

\* the economic events of year y that match a storm summary, and the sum of
\* their field f, each event once
EventMatched(ev, storms, y) ==
    \E j \in 1..Len(storms) : EconKeyMatches(ev, storms[j]) /\ storms[j].year = y

RECURSIVE MatchedSumFrom(_, _, _, _, _)
MatchedSumFrom(evs, storms, y, f, i) ==
    IF i > Len(evs) THEN 0
    ELSE (IF EventMatched(evs[i], storms, y) THEN evs[i][f] ELSE 0)
         + MatchedSumFrom(evs, storms, y, f, i + 1)

\* C25: an economic event has at most one row in the merged
\* hurricane-economic table, also when two in-scope storms have its name
\* and year, and the annual total cost and deaths of a year are the sums
\* over the matched events of that year, each counted once; the merge
\* script writes one row per economic row.
C25_EventMergedAtMostOnce ==
    /\ (variant = "capstone" /\ pc \in {"econ_merged", "annual", "done"}) =>
            \A e \in 1..Len(econ) :
                Cardinality({k \in 1..Len(hurricane_econ) :
                    hurricane_econ[k].event_name = econ[e].event_name}) <= 1
    /\ (variant = "capstone" /\ pc \in {"annual", "done"} /\ hurricane_econ # <<>>) =>
            \A i \in 1..Len(annual_hurricane) :
                LET y == annual_hurricane[i].hurricane_year
                IN  /\ annual_hurricane[i].hurricane_total_cost_billion =
                           Some(MatchedSumFrom(econ, florida_storms, y,
                                               "cost_usd_billion_cpi_adjusted", 1))
                    /\ annual_hurricane[i].hurricane_total_deaths =
                           Some(MatchedSumFrom(econ, florida_storms, y, "deaths", 1))
    /\ (variant = "filter60" /\ pc = "done" /\ ~raised) =>
            /\ Len(hurricane_econ) = Len(econ)
            /\ \A k \in 1..Len(econ) : hurricane_econ[k].event_name = econ[k].event_name

\* C26: in the final panel a row whose year has a qualifying storm has a
\* hurricane_count of at least 1 and carries the maximum wind and minimum
\* pressure of the storms of that year, absent when no storm of the year
\* has a recorded value: a zero is filled in only where the year has no
\* storm.
C26_ZeroMeansNoStorm ==
    (variant = "capstone" /\ pc = "done") =>
        \A i \in 1..Len(merged) :
            LET S == SummariesOf(florida_storms, zillow_panel[i].hurricane_year)
                winds == {florida_storms[j].max_wind_kt.v :
                             j \in {k \in S : florida_storms[k].max_wind_kt.some}}
                pressures == {florida_storms[j].min_pressure_mb.v :
                                 j \in {k \in S : florida_storms[k].min_pressure_mb.some}}
            IN  S # {} =>
                    /\ merged[i].hurricane_count.some
                    /\ merged[i].hurricane_count.v >= 1
                    /\ merged[i].hurricane_max_wind_kt =
                           (IF winds = {} THEN None ELSE Some(MaxOf(winds)))
                    /\ merged[i].hurricane_min_pressure_mb =
                           (IF pressures = {} THEN None ELSE Some(MinOf(pressures)))

(***************************************************************************)
(* dashboard/services/pipeline_runner: the status file, run_step and       *)
(* run_all.  A call is a request of POST /api/pipeline/run served by its   *)
(* own thread; the reads and writes of the status file are the steps that  *)
(* interleave.  _save_status opens the file for writing, which truncates   *)
(* it, and then dumps the dict: a read in between finds no JSON.           *)
(***************************************************************************)
MaxCalls == 2

StepSet == {PIPELINE_STEPS[i] : i \in DOMAIN PIPELINE_STEPS}

\* the step ids a request can name: "filter" is not a key of PIPELINE_STEPS
StepRequests == <<"fetch", "clean", "build", "filter">>

NoProgress == [set |-> FALSE, running |-> FALSE, current |-> 0, total |-> 0, current_step |-> ""]
Progress(r, c, s) ==
    [set |-> TRUE, running |-> r, current |-> c, total |-> Len(PIPELINE_STEPS), current_step |-> s]

\* the dict _load_status returns when there is no readable file
DefaultStatus == [steps |-> [s \in StepSet |-> "idle"], progress |-> NoProgress]

\* _load_status: the JSON of the file, or the default when the file is
\* missing or json.loads raises
LoadStatus(f) == IF f.exists /\ ~f.torn THEN f.v ELSE DefaultStatus

\* status[step_id] = {"status": st, ...}
WithStep(status, step_id, st) == [status EXCEPT !.steps[step_id] = st]

\* status["_progress"] = {...}
WithProgress(status, pr) == [status EXCEPT !.progress = pr]

\* run_all goes on after every outcome of a step
RunAllNeverStops(step_status) == FALSE

\* if r["status"] == "error": break
RunAllStops(step_status) == step_status = "error"

\* the outcomes of subprocess.run in run_step
SubprocessOutcomes == {"ok", "nonzero", "timeout", "exception"}
StepStatusOf(outcome) == IF outcome = "ok" THEN "success" ELSE "error"

NewCall(req) ==
    [req |-> req, pc |-> IF req = "all" THEN "all_begin" ELSE "step_load",
     ret |-> "", status |-> DefaultStatus, idx |-> 0,
     step_id |-> IF req = "all" THEN "" ELSE req,
     step_status |-> "", results |-> <<>>]

StatusUnchanged ==
    UNCHANGED <<fnVars, runVars, inVars, ioVars, variant, text, pc, raised, track_records,
                landfall_names, storm_ids, storm_min_dist, florida_storms, econ,
                hurricane_econ, annual_hurricane, zillow_panel, merged>>

\* run_step up to the first _save_status: the unknown step returns an error
\* and leaves the file alone
RunStepLoadStatus(p) ==
    /\ calls[p].pc = "step_load"
    /\ IF calls[p].step_id \notin StepSet
       THEN calls' = [calls EXCEPT ![p].pc = "returned", ![p].step_status = "error"]
       ELSE calls' = [calls EXCEPT
                ![p].status = WithStep(LoadStatus(status_file), calls[p].step_id, "running"),
                ![p].pc = "save_open", ![p].ret = "subprocess"]
    /\ UNCHANGED status_file
    /\ StatusUnchanged

\* _save_status: open(STATUS_FILE, "w")
SaveStatusOpen(p) ==
    /\ calls[p].pc = "save_open"
    /\ status_file' = [status_file EXCEPT !.exists = TRUE, !.torn = TRUE]
    /\ calls' = [calls EXCEPT ![p].pc = "save_dump"]
    /\ StatusUnchanged

\* _save_status: json.dump and the close of the file
SaveStatusDump(p) ==
    /\ calls[p].pc = "save_dump"
    /\ status_file' = [exists |-> TRUE, torn |-> FALSE, v |-> calls[p].status]
    /\ calls' = [calls EXCEPT ![p].pc = calls[p].ret]
    /\ StatusUnchanged

\* run_step: subprocess.run with its three except branches, and the final
\* status put into the dict loaded at the start of the call
RunStepSubprocess(p) ==
    /\ calls[p].pc = "subprocess"
    /\ \E outcome \in SubprocessOutcomes :
          calls' = [calls EXCEPT
              ![p].step_status = StepStatusOf(outcome),
              ![p].status = WithStep(calls[p].status, calls[p].step_id, StepStatusOf(outcome)),
              ![p].pc = "save_open",
              ![p].ret = IF calls[p].req = "all" THEN "all_check" ELSE "returned"]
    /\ UNCHANGED status_file
    /\ StatusUnchanged

\* run_all: the progress marker written before the loop
RunAllBegin(p) ==
    /\ calls[p].pc = "all_begin"
    /\ calls' = [calls EXCEPT
            ![p].status = WithProgress(LoadStatus(status_file), Progress(TRUE, 0, "")),
            ![p].idx = 0,
            ![p].pc = "save_open", ![p].ret = "all_loop"]
    /\ UNCHANGED status_file
    /\ StatusUnchanged

\* run_all: the head of the loop body, up to the call of run_step
RunAllMark(p) ==
    /\ calls[p].pc = "all_loop"
    /\ calls' = [calls EXCEPT
            ![p].status = WithProgress(LoadStatus(status_file),
                              Progress(TRUE, calls[p].idx, PIPELINE_STEPS[calls[p].idx + 1])),
            ![p].step_id = PIPELINE_STEPS[calls[p].idx + 1],
            ![p].pc = "save_open", ![p].ret = "step_load"]
    /\ UNCHANGED status_file
    /\ StatusUnchanged

\* run_all: results.append(r), the break on an error and the end of the loop
RunAllCheck(p) ==
    /\ calls[p].pc = "all_check"
    /\ calls' = [calls EXCEPT
            ![p].results = Append(calls[p].results,
                                  [step |-> calls[p].step_id, status |-> calls[p].step_status]),
            ![p].idx = calls[p].idx + 1,
            ![p].pc = IF RunAllStops(calls[p].step_status)
                         \/ calls[p].idx + 1 = Len(PIPELINE_STEPS)
                      THEN "all_clear" ELSE "all_loop"]
    /\ UNCHANGED status_file
    /\ StatusUnchanged

\* run_all: the progress marker cleared after the loop
RunAllClear(p) ==
    /\ calls[p].pc = "all_clear"
    /\ calls' = [calls EXCEPT
            ![p].status = WithProgress(LoadStatus(status_file),
                              Progress(FALSE, Len(PIPELINE_STEPS), "")),
            ![p].pc = "save_open", ![p].ret = "returned"]
    /\ UNCHANGED status_file
    /\ StatusUnchanged

\* the status files a server can find at its start: none, an unreadable one,
\* or one written by earlier runs
PriorStatuses == {"idle", "success", "error"}
PriorProgress == {NoProgress, Progress(FALSE, Len(PIPELINE_STEPS), ""), Progress(TRUE, 1, "clean")}
PriorFiles ==
    {[exists |-> FALSE, torn |-> FALSE, v |-> DefaultStatus],
     [exists |-> TRUE, torn |-> TRUE, v |-> DefaultStatus]}
    \cup {[exists |-> TRUE, torn |-> FALSE, v |-> [steps |-> f, progress |-> pr]] :
            f \in [StepSet -> PriorStatuses], pr \in PriorProgress}

StatusBlank ==
    /\ text = <<>>
    /\ files = {}
    /\ arg = <<>>
    /\ pc = "start"
    /\ raised = FALSE
    /\ track_records = <<>>
    /\ landfall_names = {}
    /\ storm_ids = {}
    /\ storm_min_dist = <<>>
    /\ florida_storms = <<>>
    /\ econ = <<>>
    /\ hurricane_econ = <<>>
    /\ annual_hurricane = <<>>
    /\ zillow_panel = <<>>
    /\ merged = <<>>
    /\ out = None
    /\ started = <<>>
    /\ failed = {}
    /\ top = "idle"
    /\ stage = 0
    /\ child = 0
    /\ exit_code = None
    /\ logged = {}
    /\ noaa_data = <<>>

\* concurrent requests for single steps, each for another step id
StepsInit ==
    /\ variant = "run_step"
    /\ StatusBlank
    /\ status_file \in {f \in PriorFiles :
            f.exists /\ ~f.torn =>
                /\ f.v.progress = NoProgress
                /\ \A s, t \in StepSet : f.v.steps[s] = f.v.steps[t]}
    /\ \E reqs \in [1..MaxCalls -> DOMAIN StepRequests] :
          /\ \A i, j \in 1..MaxCalls : i < j => reqs[i] < reqs[j]
          /\ calls = [i \in 1..MaxCalls |-> NewCall(StepRequests[reqs[i]])]

StepsNext ==
    \E p \in DOMAIN calls :
        \/ RunStepLoadStatus(p)
        \/ SaveStatusOpen(p)
        \/ SaveStatusDump(p)
        \/ RunStepSubprocess(p)

SpecSteps == StepsInit /\ [][StepsNext]_vars

\* C27: when concurrent calls of run_step for different steps have all
\* returned, the status file is readable and holds for every step that was
\* run the final status of its own call: no step is left "running" and no
\* finished result is lost to the stale dict of another call.
C27_ConcurrentStepsKeepOwnStatus ==
    (variant = "run_step" /\ \A p \in DOMAIN calls : calls[p].pc = "returned") =>
        /\ status_file.exists /\ ~status_file.torn
        /\ \A p \in DOMAIN calls :
              calls[p].req \in StepSet =>
                  /\ LoadStatus(status_file).steps[calls[p].req] = calls[p].step_status
                  /\ LoadStatus(status_file).steps[calls[p].req] # "running"

\* ---------------------------------------------------------------------------
\* One call of run_all.
RunAllInit ==
    /\ variant = "run_all_status"
    /\ StatusBlank
    /\ status_file \in PriorFiles
    /\ calls = <<NewCall("all")>>

RunAllNext ==
    \E p \in DOMAIN calls :
        \/ RunAllBegin(p)
        \/ RunAllMark(p)
        \/ RunStepLoadStatus(p)
        \/ SaveStatusOpen(p)
        \/ SaveStatusDump(p)
        \/ RunStepSubprocess(p)
        \/ RunAllCheck(p)
        \/ RunAllClear(p)

\* the call runs in one thread, statement after statement, and the
\* subprocess ends or times out: every step that can be taken is taken
SpecRunAll == RunAllInit /\ [][RunAllNext]_vars /\ WF_vars(RunAllNext)

\* the steps of the call so far are the first steps of PIPELINE_STEPS, in
\* order, and every step before the last one ended with success
RunAllInOrder(c) ==
    /\ Len(c.results) <= Len(PIPELINE_STEPS)
    /\ \A i \in 1..Len(c.results) : c.results[i].step = PIPELINE_STEPS[i]
    /\ \A i \in 1..(Len(c.results) - 1) : c.results[i].status = "success"
    /\ c.pc \in {"step_load", "subprocess"} =>
          /\ c.step_id = PIPELINE_STEPS[Len(c.results) + 1]
          /\ \A i \in 1..Len(c.results) : c.results[i].status = "success"

\* the call has returned and the file holds the cleared progress marker
RunAllReturned(c) ==
    /\ c.pc = "returned"
    /\ status_file.exists /\ ~status_file.torn
    /\ status_file.v.progress = Progress(FALSE, Len(PIPELINE_STEPS), "")
    /\ status_file.v.progress.current = status_file.v.progress.total

\* C28: a single call of run_all runs fetch, clean and build in that order,
\* starts a step only when every earlier step ended with "success", and for
\* every outcome of the steps it returns with the progress marker of the
\* status file at running = false and current = total.
C28_RunAllInOrderAndTerminates ==
    /\ [](variant = "run_all_status" =>
            /\ RunAllInOrder(calls[1])
            /\ calls[1].pc = "returned" => RunAllReturned(calls[1]))
    /\ <>(variant = "run_all_status" => RunAllReturned(calls[1]))

\* the run stopped at a failed clean step and returned
C28_StoppedAtCleanAndReturned ==
    /\ variant = "run_all_status"
    /\ calls[1].pc = "returned"
    /\ Len(calls[1].results) = 2
    /\ calls[1].results[2].status = "error"
    /\ status_file.v.steps["clean"] = "error"
    /\ status_file.v.progress.running = FALSE

\* ---------------------------------------------------------------------------
\* Field alignment of the clean parser.

\* C29: for a well-formed data line the record of clean_hurdat2's
\* _parse_hurdat2 has the latitude, longitude, maximum wind and minimum
\* pressure of that line's fields, the values the capstone parse_hurdat2
\* gives for the line (a pressure sentinel, which the clean script replaces
\* in a later step, is left out of the comparison).  The parser reads from
\* left to right, so the record of the last line stands last.
C29_CleanFieldsAligned ==
    (variant = "clean" /\ pc = "parsed" /\ text # <<>>
        /\ text[Len(text)] \in {"NR", "F2"}) =>
        /\ Len(track_records) > 0
        /\ LET r == track_records[Len(track_records)]
               c == CapstoneParseHurdat2(<<text[Len(text)]>>)[1]
           IN  /\ r.lat = Some(c.lat)
               /\ r.lon = Some(c.lon)
               /\ r.max_wind = c.max_wind
               /\ c.min_pressure.some => r.min_pressure = c.min_pressure

\* ---------------------------------------------------------------------------
\* The frame of the panel merge.
HousingCols == {"Metro", "Date", "ZHVI"}
AppendedCols == {"hurricane_count", "hurricane_max_wind_kt", "hurricane_min_pressure_mb",
                 "hurricane_closest_nm", "hurricane_total_cost_billion",
                 "hurricane_total_deaths"}

\* C30: the merged panel has the housing rows in their input order, each
\* with its Metro, its Date and its housing metric unchanged, an absent
\* metric included; every other column of the output is a hurricane_*
\* column, and the join key (hurricane_year, year) is not a column of it.
C30_MergeOnlyAppendsHurricaneCols ==
    (variant = "capstone" /\ pc = "done") =>
        /\ Len(merged) = Len(zillow_panel)
        /\ \A i \in 1..Len(merged) :
              /\ HousingCols \subseteq DOMAIN merged[i]
              /\ merged[i].Metro = zillow_panel[i].Metro
              /\ merged[i].Date = zillow_panel[i].Date
              /\ merged[i].ZHVI = zillow_panel[i].ZHVI
              /\ (DOMAIN merged[i]) \ HousingCols \subseteq AppendedCols
              /\ "hurricane_year" \notin DOMAIN merged[i]
              /\ "year" \notin DOMAIN merged[i]

\* the whole panel merged, a row with an absent housing metric among them,
\* with the economic totals appended
C30_PanelWithAbsentMetricMerged ==
    /\ variant = "capstone" /\ pc = "done"
    /\ Len(merged) = Len(AllPanelRows)
    /\ \E i \in 1..Len(merged) : merged[i].ZHVI = None
    /\ \E i \in 1..Len(merged) : merged[i].ZHVI # None
    /\ "hurricane_total_deaths" \in DOMAIN merged[1]
    /\ "hurricane_year" \in DOMAIN zillow_panel[1]

====
